---- MODULE Spec2Model ----
(***************************************************************************)
(* Verification model of the RAG core of vector-meanings: the request      *)
(* deduplicator, the bounded batch processor, the embedding cache, the     *)
(* fixed-size and recursive chunkers, the index tuner, semantic search     *)
(* with the RAG pipeline, result diversification, the storing of chunks,   *)
(* the answers of the Sandbox component, the initialize / close life       *)
(* cycle of the services with the stages of a RAG query, the context       *)
(* window of a search result, the shared database instance, the loading    *)
(* of the embedding model and lazy modules.  Each subsystem has its own    *)
(* variables, its own actions and its own specification; the variables of  *)
(* the other subsystems stay at their initial values under it.             *)
(***************************************************************************)
EXTENDS Integers, Sequences, FiniteSets, TLC

VARIABLES
    \* RequestDeduplicator
    inFlightRequests,   \* Map<string, Promise>: text -> id of the stored promise, 0 = absent
    comps,              \* the underlying embeddingService.embed calls, in start order
    calls,              \* the RequestDeduplicator.embed calls, in issue order
    \* processBatches / processWithConcurrency
    items,              \* number of items; item n is the n-th element of the input
    batchConfig,        \* [batchSize, batchDelay, concurrency]
    batchStart,         \* processBatches: the loop variable i (0-based)
    batchPos,           \* processWithConcurrency: items of the batch already started
    executing,          \* processWithConcurrency: the executing array, as item numbers
    procState,          \* per item: "idle", "running" or "done" (the processor call)
    batchResults,       \* processWithConcurrency: results
    results,            \* processBatches: results
    completed,          \* processBatches: completed, as reported to onProgress
    poolPc,             \* "loop", "race", "all", "delay", "done"
    \* EmbeddingCache
    cache,              \* Map<string, CacheEntry>, in insertion order (oldest first)
    maxSize,
    ttlMs,
    now,                \* Date.now()
    lastSet,            \* history: per text, the value and time of its last set still standing
    recency,            \* history: the cached keys, least recently used first
    lastOp,             \* history: the operation just performed
    \* CachedEmbeddingService
    cachedCalls,        \* the CachedEmbeddingService.embed calls, in issue order
    \* fixed-size chunking
    chunker,            \* which implementation runs: "chunkText", "step05" or "readme"
    srcText,            \* the parameter text, a sequence of characters
    chunkConfig,        \* [chunkSize, chunkOverlap, minChunkSize]
    startIndex,         \* the loop variable start / startIndex
    chunkIndex,         \* the loop variable index / chunkIndex
    chunks,             \* the chunks pushed so far
    iterations,         \* history: loop iterations run so far
    chunkPc,            \* "loop" or "done"
    \* IndexTuner and VectorStore.createIndex, on one persistent database
    rowCount,           \* SELECT COUNT(*) FROM <table>
    embeddingIndex,     \* the index idx_<table>_embedding, NoIndex when there is none
    recommendation,     \* what recommendConfig returned last
    storeConfig,        \* the VectorStoreConfig of the store initialized last
    ddl,                \* history: the statements the last operation executed
    indexBefore,        \* history: embeddingIndex when the last operation began
    tunerOp,            \* history: the operation just performed
    \* SemanticSearchService, RAGPipeline and the documents table they read
    searchRows,         \* the table: row i is the chunk with id i
    searchQuery,        \* the options of the last search: [limit, threshold, filtered]
    response,           \* the SearchResponse of the last search
    ragQuery,           \* the options of the RAGPipeline.query just performed, if any
    ragResponse,        \* what it returned: [chunksUsed, sources]
    contextChunks,      \* the chunks the operation just performed kept, as chunk ids
    contextBudget,      \* the maxTokens it truncated to
    searchOp,           \* history: the operation just performed
    \* diversifyResults
    candidates,         \* the parameter results: item k has rank k
    maxPerDocument,
    diversified,        \* the array returned
    diversifyPc,        \* "call" or "done"
    \* VectorStore.addChunks / IngestionService.ingest and the documents table
    storeKind,          \* which code stores: "vectorStore" or "ingestionService"
    documents,          \* the rows of the documents table, in insertion order
    pendingChunks,      \* addChunks: the chunks of the loop not yet added
    latest,             \* history: per document id, the version ingested last
    ingestedBefore,     \* history: the contents IngestionService.ingest was given
    docsBefore,         \* history: documents when the last ingestion began
    lastAdd,            \* history: the chunk added last, and what the table was like
    storeOp,            \* history: the operation just performed
    \* Sandbox.handleSearch, AnswerService.answer and GeneralKnowledgeService.answer
    sandboxResults,     \* the component's results: how many rows the search gave
    localAnswer,        \* the component's localAnswer, '' as <<>>
    worldAnswer,        \* the component's worldAnswer, '' as <<>>
    isSearching,
    isAnsweringLocal,
    isAnsweringWorld,
    localPromise,       \* localRagPromise() of each run: "idle", "pending", "fulfilled" or "rejected"
    worldPromise,       \* worldKnowledgePromise() of each run, likewise
    generatedText,      \* history: the text the answer model generated for the answer shown
    errorLogged,        \* console.error was called in the catch block
    sandboxPc,          \* each run of handleSearch: "idle", "searching", "answering" or "done"
    submitted,          \* how many searches were submitted so far
    shown,              \* history: the run that set results, localAnswer, worldAnswer; 0 when cleared
    \* VectorStore, SemanticSearchService and RAGPipeline: initialize, close, query
    storeDb,            \* VectorStore.db: "null" or "open"
    storeInitialized,   \* VectorStore.isInitialized
    storeInitPc,        \* VectorStore.initialize(): "idle" or "running"
    storeClosePc,       \* VectorStore.close(): "idle" or "closing"
    searchInitialized,  \* SemanticSearchService.isInitialized
    searchInitPc,       \* SemanticSearchService.initialize(): "idle" or "running"
    ragInitialized,     \* RAGPipeline.isInitialized
    ragInitPc,          \* RAGPipeline.initialize(): "idle" or "running"
    queryPc,            \* RAGPipeline.query: "idle", "retrieving", "generating", "done"
    stages,             \* the stages the query has entered, in order
    queryOutcome,       \* how the query ended: [status, error, failedAt, metadata]
    ready,              \* history: whose initialize() completed, with no close() since
    lastCall,           \* history: the operation just issued and what it did
    \* SemanticSearchService.getContextWindow
    windowTable,        \* the rows of the documents table, in physical order
    windowMatch,        \* the parameter document: the chunk the search matched
    windowSize,         \* the parameter windowSize
    contextWindow,      \* the ContextWindow returned
    windowPc,           \* "call" or "done"
    \* VectorDatabase.getInstance and its callers
    dbState,            \* VectorDatabase.instance: "null", "constructed", "ready", "extension" or "table"
    constructions,      \* history: how many times new PGlite(...) ran
    getInstancePc,      \* each caller: "idle", "waitReady", "extension", "table" or "returned"
    received,           \* history: the state of the instance when the caller got it, "none" before
    \* EmbeddingService.initialize, doInitialize and embed
    initializationPromise, \* "null", or the promise of doInitialize: "pending", "fulfilled", "rejected"
    embeddingInitialized,  \* EmbeddingService.isInitialized
    modelLoads,         \* history: how many times doInitialize ran
    initializePc,       \* each caller: "idle", "awaiting", "resolved", "rejected", "embedded", "threw"
    lastInitialize,     \* history: the initialize() call made last
    \* getLazyModule on one LazyModule
    moduleInstance,     \* module.instance: "null" or "loaded"
    moduleLoading,      \* module.loading
    lazyPc,             \* each caller: "idle", "loading", "waiting", "returned" or "threw"
    lazyResult          \* what the caller's last call gave: "none", "instance", "null" or "error"

dedupVars == <<inFlightRequests, comps, calls>>

poolVars == <<items, batchConfig, batchStart, batchPos, executing, procState,
              batchResults, results, completed, poolPc>>

cacheVars == <<cache, maxSize, ttlMs, now>>

cacheHistory == <<lastSet, recency, lastOp>>

chunkVars == <<chunker, srcText, chunkConfig, startIndex, chunkIndex, chunks, iterations,
               chunkPc>>

tunerVars == <<rowCount, embeddingIndex, recommendation, storeConfig, ddl, indexBefore,
               tunerOp>>

searchVars == <<searchRows, searchQuery, response, ragQuery, ragResponse, contextChunks,
                contextBudget, searchOp>>

diversifyVars == <<candidates, maxPerDocument, diversified, diversifyPc>>

storeVars == <<storeKind, documents, pendingChunks, latest, ingestedBefore, docsBefore,
               lastAdd, storeOp>>

sandboxVars == <<sandboxResults, localAnswer, worldAnswer, isSearching,
                 isAnsweringLocal, isAnsweringWorld, localPromise, worldPromise,
                 generatedText, errorLogged, sandboxPc, submitted, shown>>

pipelineVars == <<storeDb, storeInitialized, storeInitPc, storeClosePc,
                  searchInitialized, searchInitPc, ragInitialized, ragInitPc, queryPc,
                  stages, queryOutcome, ready, lastCall>>

windowVars == <<windowTable, windowMatch, windowSize, contextWindow, windowPc>>

databaseVars == <<dbState, constructions, getInstancePc, received>>

embeddingVars == <<initializationPromise, embeddingInitialized, modelLoads,
                   initializePc, lastInitialize>>

lazyVars == <<moduleInstance, moduleLoading, lazyPc, lazyResult>>

vars == <<dedupVars, poolVars, cacheVars, cacheHistory, cachedCalls, chunkVars,
          tunerVars, searchVars, diversifyVars, storeVars, sandboxVars, pipelineVars,
          windowVars, databaseVars, embeddingVars, lazyVars>>

\* what the actions of one subsystem leave alone
notDedup == <<poolVars, cacheVars, cacheHistory, cachedCalls, chunkVars, tunerVars,
              searchVars, diversifyVars, storeVars, sandboxVars, pipelineVars,
              windowVars, databaseVars, embeddingVars, lazyVars>>
notPool == <<dedupVars, cacheVars, cacheHistory, cachedCalls, chunkVars, tunerVars,
             searchVars, diversifyVars, storeVars, sandboxVars, pipelineVars,
             windowVars, databaseVars, embeddingVars, lazyVars>>
notCache == <<dedupVars, poolVars, chunkVars, tunerVars, searchVars, diversifyVars,
              storeVars, sandboxVars, pipelineVars, windowVars, databaseVars,
              embeddingVars, lazyVars>>
notChunk == <<dedupVars, poolVars, cacheVars, cacheHistory, cachedCalls, tunerVars,
              searchVars, diversifyVars, storeVars, sandboxVars, pipelineVars,
              windowVars, databaseVars, embeddingVars, lazyVars>>
notTuner == <<dedupVars, poolVars, cacheVars, cacheHistory, cachedCalls, chunkVars,
              searchVars, diversifyVars, storeVars, sandboxVars, pipelineVars,
              windowVars, databaseVars, embeddingVars, lazyVars>>
notSearch == <<dedupVars, poolVars, cacheVars, cacheHistory, cachedCalls, chunkVars,
               tunerVars, diversifyVars, storeVars, sandboxVars, pipelineVars,
               windowVars, databaseVars, embeddingVars, lazyVars>>
notDiversify == <<dedupVars, poolVars, cacheVars, cacheHistory, cachedCalls, chunkVars,
                  tunerVars, searchVars, storeVars, sandboxVars, pipelineVars,
                  windowVars, databaseVars, embeddingVars, lazyVars>>
notStore == <<dedupVars, poolVars, cacheVars, cacheHistory, cachedCalls, chunkVars,
              tunerVars, searchVars, diversifyVars, sandboxVars, pipelineVars,
              windowVars, databaseVars, embeddingVars, lazyVars>>
notSandbox == <<dedupVars, poolVars, cacheVars, cacheHistory, cachedCalls, chunkVars,
                tunerVars, searchVars, diversifyVars, storeVars, pipelineVars,
                windowVars, databaseVars, embeddingVars, lazyVars>>
notPipeline == <<dedupVars, poolVars, cacheVars, cacheHistory, cachedCalls, chunkVars,
                 tunerVars, searchVars, diversifyVars, storeVars, sandboxVars,
                 windowVars, databaseVars, embeddingVars, lazyVars>>
notWindow == <<dedupVars, poolVars, cacheVars, cacheHistory, cachedCalls, chunkVars,
               tunerVars, searchVars, diversifyVars, storeVars, sandboxVars,
               pipelineVars, databaseVars, embeddingVars, lazyVars>>
notDatabase == <<dedupVars, poolVars, cacheVars, cacheHistory, cachedCalls, chunkVars,
                 tunerVars, searchVars, diversifyVars, storeVars, sandboxVars,
                 pipelineVars, windowVars, embeddingVars, lazyVars>>
notEmbedding == <<dedupVars, poolVars, cacheVars, cacheHistory, cachedCalls, chunkVars,
                  tunerVars, searchVars, diversifyVars, storeVars, sandboxVars,
                  pipelineVars, windowVars, databaseVars, lazyVars>>
notLazy == <<dedupVars, poolVars, cacheVars, cacheHistory, cachedCalls, chunkVars,
             tunerVars, searchVars, diversifyVars, storeVars, sandboxVars, pipelineVars,
             windowVars, databaseVars, embeddingVars>>

\* ------------------------------------------------------------------------
\* Bounds
\* ------------------------------------------------------------------------
MaxCalls == 3
MaxItems == 4
MaxConcurrency == 2
MaxCacheSize == 3
MaxTtl == 1
MaxTime == 1
MaxCachedCalls == 2
MaxTextLen == 3
MaxChunkSize == 4
MaxMinChunkSize == 1

\* ------------------------------------------------------------------------
\* RequestDeduplicator (08-optimization.md, 895-933)
\* ------------------------------------------------------------------------
DedupTexts == {"hello", "world"}

\* what an underlying embedding call can settle with: a vector or an error
Outcomes == [ok : {TRUE}, v : {"vecA", "vecB"}] \cup [ok : {FALSE}, v : {"errA", "errB"}]

NoOutcome == [ok |-> FALSE, v |-> "none"]

CompIds == 1..Len(comps)

\* underlying computations for text t whose promise has not settled yet
PendingFor(t) == {k \in CompIds : comps[k].text = t /\ comps[k].st = "pending"}

\* computations whose stored promise (the .then/.catch chain) has settled
SettledComps == {k \in CompIds : comps[k].st = "settled"}

\* mutant: the lookup never finds the in-flight request
ExistingNever(text) == 0

\* const existing = this.inFlightRequests.get(text)
Existing(text) == inFlightRequests[text]

\* mutant: the .catch handler forgets to clean up
InFlightAfterSettleKeepFailed(k) ==
    IF comps[k].outcome.ok
    THEN [inFlightRequests EXCEPT ![comps[k].text] = 0]
    ELSE inFlightRequests

\* this.inFlightRequests.delete(text), in the .then and in the .catch handler
InFlightAfterSettle(k) == [inFlightRequests EXCEPT ![comps[k].text] = 0]

\* get pendingCount
pendingCount == Cardinality({t \in DedupTexts : inFlightRequests[t] # 0})

DedupInit ==
    /\ inFlightRequests = [t \in DedupTexts |-> 0]
    /\ comps = <<>>
    /\ calls = <<>>

\* embed(text): runs synchronously from the lookup to the Map.set
Embed(text) ==
    /\ Len(calls) < MaxCalls
    /\ LET existing == Existing(text)
           during   == IF PendingFor(text) = {} THEN 0
                       ELSE CHOOSE k \in PendingFor(text) : TRUE
           call(k)  == [text |-> text, chain |-> k, during |-> during,
                        settledAtIssue |-> SettledComps, got |-> NoOutcome,
                        delivered |-> FALSE]
       IN IF existing # 0
          THEN /\ calls' = Append(calls, call(existing))
               /\ UNCHANGED <<inFlightRequests, comps>>
          ELSE LET k == Len(comps) + 1
               IN /\ comps' = Append(comps, [text |-> text, st |-> "pending",
                                             outcome |-> NoOutcome])
                  /\ inFlightRequests' = [inFlightRequests EXCEPT ![text] = k]
                  /\ calls' = Append(calls, call(k))
    /\ UNCHANGED notDedup

\* the embedding service settles the underlying promise, with a vector or an error
UnderlyingSettles(k, o) ==
    /\ k \in CompIds
    /\ comps[k].st = "pending"
    /\ comps' = [comps EXCEPT ![k] = [@ EXCEPT !.st = "returned", !.outcome = o]]
    /\ UNCHANGED <<inFlightRequests, calls>>
    /\ UNCHANGED notDedup

\* the .then handler (success) or the .catch handler (failure) runs: the record
\* is deleted and the stored promise settles with the same outcome
HandlerRuns(k) ==
    /\ k \in CompIds
    /\ comps[k].st = "returned"
    /\ inFlightRequests' = InFlightAfterSettle(k)
    /\ comps' = [comps EXCEPT ![k].st = "settled"]
    /\ UNCHANGED calls
    /\ UNCHANGED notDedup

\* a caller's await on the returned promise resumes
Deliver(c) ==
    /\ c \in 1..Len(calls)
    /\ ~calls[c].delivered
    /\ comps[calls[c].chain].st = "settled"
    /\ calls' = [calls EXCEPT ![c] = [@ EXCEPT !.got = comps[calls[c].chain].outcome,
                                                !.delivered = TRUE]]
    /\ UNCHANGED <<inFlightRequests, comps>>
    /\ UNCHANGED notDedup

DedupNext ==
    \/ \E t \in DedupTexts : Embed(t)
    \/ \E k \in 1..MaxCalls, o \in Outcomes : UnderlyingSettles(k, o)
    \/ \E k \in 1..MaxCalls : HandlerRuns(k)
    \/ \E c \in 1..MaxCalls : Deliver(c)

\* ------------------------------------------------------------------------
\* processBatches / processWithConcurrency (08-optimization.md, 444-511)
\* ------------------------------------------------------------------------
Min(a, b) == IF a < b THEN a ELSE b

\* items.slice(i, i + batchSize), as the item numbers of the batch
Batch == (batchStart + 1)..Min(batchStart + batchConfig.batchSize, items)

\* the flag `settled` as the filter callback reads it: the .then that sets it
\* was registered in the same callback, and its reaction runs only after the
\* callback has returned, also for a promise that is already resolved
SettledWhenFiltered(p) == FALSE

\* executing.filter(p => { ...; return !settled; })
RemoveCompleted(exec) == SelectSeq(exec, LAMBDA p : ~SettledWhenFiltered(p))

\* processor calls started and not yet settled
InFlight == {n \in 1..items : procState[n] = "running"}

PoolInit ==
    /\ items \in 1..MaxItems
    /\ batchConfig \in [batchSize : 1..MaxItems, batchDelay : {0, 1},
                         concurrency : 1..MaxConcurrency]
    /\ batchStart = 0
    /\ batchPos = 0
    /\ executing = <<>>
    /\ procState = [n \in 1..items |-> "idle"]
    /\ batchResults = <<>>
    /\ results = <<>>
    /\ completed = 0
    /\ poolPc = "loop"

PoolParked ==
    /\ items = 1
    /\ batchConfig = [batchSize |-> 1, batchDelay |-> 0, concurrency |-> 1]
    /\ batchStart = 0
    /\ batchPos = 0
    /\ executing = <<>>
    /\ procState = [n \in 1..1 |-> "idle"]
    /\ batchResults = <<>>
    /\ results = <<>>
    /\ completed = 0
    /\ poolPc = "done"

\* one iteration of `for (const item of items)`: the processor is called, its
\* promise pushed, and the loop either goes on, awaits Promise.race or, after
\* the last item, awaits Promise.all
StartItem ==
    /\ poolPc = "loop"
    /\ batchStart + batchPos < Min(batchStart + batchConfig.batchSize, items)
    /\ LET n == batchStart + batchPos + 1
           exec == Append(executing, n)
       IN /\ procState' = [procState EXCEPT ![n] = "running"]
          /\ executing' = exec
          /\ batchPos' = batchPos + 1
          /\ poolPc' = IF Len(exec) >= batchConfig.concurrency THEN "race"
                       ELSE IF n = Min(batchStart + batchConfig.batchSize, items)
                            THEN "all" ELSE "loop"
    /\ UNCHANGED <<items, batchConfig, batchStart, batchResults, results, completed>>
    /\ UNCHANGED notPool

\* a processor call settles and its .then pushes the result
ProcessorCompletes(n) ==
    /\ n \in 1..items
    /\ procState[n] = "running"
    /\ procState' = [procState EXCEPT ![n] = "done"]
    /\ batchResults' = Append(batchResults, n)
    /\ UNCHANGED <<items, batchConfig, batchStart, batchPos, executing, results,
                   completed, poolPc>>
    /\ UNCHANGED notPool

\* await Promise.race(executing) resumes: some promise of executing has settled
RaceResumes ==
    /\ poolPc = "race"
    /\ \E i \in 1..Len(executing) : procState[executing[i]] = "done"
    /\ executing' = RemoveCompleted(executing)
    /\ poolPc' = IF batchStart + batchPos = Min(batchStart + batchConfig.batchSize, items)
                 THEN "all" ELSE "loop"
    /\ UNCHANGED <<items, batchConfig, batchStart, batchPos, procState, batchResults,
                   results, completed>>
    /\ UNCHANGED notPool

\* await Promise.all(executing) resumes; processBatches appends the batch's
\* results, reports progress and goes to the next batch
BatchDone ==
    /\ poolPc = "all"
    /\ \A i \in 1..Len(executing) : procState[executing[i]] = "done"
    /\ results' = results \o batchResults
    /\ completed' = completed + Cardinality(Batch)
    /\ LET more == batchStart + batchConfig.batchSize < items
       IN IF batchConfig.batchDelay > 0 /\ more
          THEN /\ poolPc' = "delay"
               /\ UNCHANGED <<batchStart, batchPos, executing, batchResults>>
          ELSE /\ batchStart' = batchStart + batchConfig.batchSize
               /\ batchPos' = 0
               /\ executing' = <<>>
               /\ batchResults' = <<>>
               /\ poolPc' = IF more THEN "loop" ELSE "done"
    /\ UNCHANGED <<items, batchConfig, procState>>
    /\ UNCHANGED notPool

\* the setTimeout(resolve, batchDelay) between two batches fires
DelayElapsed ==
    /\ poolPc = "delay"
    /\ batchStart' = batchStart + batchConfig.batchSize
    /\ batchPos' = 0
    /\ executing' = <<>>
    /\ batchResults' = <<>>
    /\ poolPc' = "loop"
    /\ UNCHANGED <<items, batchConfig, procState, results, completed>>
    /\ UNCHANGED notPool

PoolNext ==
    \/ StartItem
    \/ \E n \in 1..MaxItems : ProcessorCompletes(n)
    \/ RaceResumes
    \/ BatchDone
    \/ DelayElapsed

\* ------------------------------------------------------------------------
\* EmbeddingCache (08-optimization.md, 47-143)
\* ------------------------------------------------------------------------
\* texts as sequences of UTF-16 code units: "Aa", "BB", "C", "D"
CacheTexts == {<<65, 97>>, <<66, 66>>, <<67>>, <<68>>}

Embeddings == {"vecA", "vecB"}

\* hash = ((hash << 5) - hash) + char; hash = hash & hash.  For the texts of
\* CacheTexts the value stays far below 2^31, where the 32-bit conversion of
\* << and & changes nothing
HashStep(hash, char) == ((hash * 32) - hash) + char

RECURSIVE HashOf(_, _)
HashOf(text, n) == IF n = 0 THEN 0 ELSE HashStep(HashOf(text, n - 1), text[n])

\* `emb_${hash}_${text.length}`
generateKey(text) == <<HashOf(text, Len(text)), Len(text)>>

NoKey == <<>>

\* position of key in the Map's insertion order, 0 when absent
IndexOfKey(c, key) ==
    IF \E i \in 1..Len(c) : c[i].key = key
    THEN CHOOSE i \in 1..Len(c) : c[i].key = key
    ELSE 0

\* Map.delete(key)
MapDelete(c, key) == SelectSeq(c, LAMBDA e : e.key # key)

\* Map.set(key, entry): an existing key keeps its place in the insertion order
MapSet(c, key, entry) ==
    IF IndexOfKey(c, key) = 0
    THEN Append(c, entry)
    ELSE [c EXCEPT ![IndexOfKey(c, key)] = entry]

Entry(key, embedding) == [key |-> key, embedding |-> embedding, timestamp |-> now]

\* Date.now() - entry.timestamp > this.ttlMs
Expired(entry) == now - entry.timestamp > ttlMs

\* get(text): what it returns
GetResult(text) ==
    LET i == IndexOfKey(cache, generateKey(text))
    IN IF i = 0 THEN "null"
       ELSE IF Expired(cache[i]) THEN "null"
       ELSE cache[i].embedding

\* get(text): the Map afterwards
CacheAfterGet(text) ==
    LET key == generateKey(text)
        i == IndexOfKey(cache, key)
    IN IF i = 0 THEN cache
       ELSE IF Expired(cache[i]) THEN MapDelete(cache, key)
       ELSE MapSet(MapDelete(cache, key), key, cache[i])

\* set(text, ...): the key evicted for capacity, NoKey when none is
EvictedBySet(text) ==
    IF Len(cache) >= maxSize /\ Len(cache) > 0 THEN cache[1].key ELSE NoKey

\* mutant: set never evicts
CacheAfterSetNoEvict(text, embedding) ==
    MapSet(cache, generateKey(text), Entry(generateKey(text), embedding))

\* set(text, embedding): the Map afterwards
CacheAfterSet(text, embedding) ==
    LET key == generateKey(text)
        kept == IF EvictedBySet(text) # NoKey
                THEN MapDelete(cache, EvictedBySet(text)) ELSE cache
    IN MapSet(kept, key, Entry(key, embedding))

NeverSet == [set |-> FALSE, v |-> "null", at |-> 0]

Without(seq, key) == SelectSeq(seq, LAMBDA k : k # key)

CacheInit ==
    /\ cache = <<>>
    /\ maxSize \in 1..MaxCacheSize
    /\ ttlMs \in 0..MaxTtl
    /\ now = 0
    /\ lastSet = [t \in CacheTexts |-> NeverSet]
    /\ recency = <<>>
    /\ lastOp = "new"

CacheParked ==
    /\ cache = <<>>
    /\ maxSize = 1
    /\ ttlMs = 1
    /\ now = 0
    /\ lastSet = [t \in CacheTexts |-> NeverSet]
    /\ recency = <<>>
    /\ lastOp = "new"

\* history of a get: a hit is a use of the key, a miss leaves no entry under it
RecencyAfterGet(text) ==
    IF GetResult(text) # "null"
    THEN Append(Without(recency, generateKey(text)), generateKey(text))
    ELSE Without(recency, generateKey(text))

\* history of a set: a use of the key; the evicted key is gone
RecencyAfterSet(text) ==
    Append(Without(Without(recency, EvictedBySet(text)), generateKey(text)),
           generateKey(text))

LastSetAfterSet(text, embedding) ==
    [t \in CacheTexts |->
        IF t = text THEN [set |-> TRUE, v |-> embedding, at |-> now]
        ELSE IF generateKey(t) = EvictedBySet(text) THEN NeverSet
        ELSE lastSet[t]]

LastOpAfterSet(text) ==
    IF EvictedBySet(text) \in {NoKey, generateKey(text)}
    THEN "set" ELSE "set, evicting another key"

Get(text) ==
    /\ cache' = CacheAfterGet(text)
    /\ recency' = RecencyAfterGet(text)
    /\ lastOp' = "get"
    /\ UNCHANGED <<maxSize, ttlMs, now, lastSet, cachedCalls>>
    /\ UNCHANGED notCache

Set(text, embedding) ==
    /\ cache' = CacheAfterSet(text, embedding)
    /\ lastSet' = LastSetAfterSet(text, embedding)
    /\ recency' = RecencyAfterSet(text)
    /\ lastOp' = LastOpAfterSet(text)
    /\ UNCHANGED <<maxSize, ttlMs, now, cachedCalls>>
    /\ UNCHANGED notCache

Clear ==
    /\ cache' = <<>>
    /\ lastSet' = [t \in CacheTexts |-> NeverSet]
    /\ recency' = <<>>
    /\ lastOp' = "clear"
    /\ UNCHANGED <<maxSize, ttlMs, now, cachedCalls>>
    /\ UNCHANGED notCache

\* the clock advances
Tick ==
    /\ now < MaxTime
    /\ now' = now + 1
    /\ lastOp' = "tick"
    /\ UNCHANGED <<cache, maxSize, ttlMs, lastSet, recency, cachedCalls>>
    /\ UNCHANGED notCache

CacheNext ==
    \/ \E t \in CacheTexts : Get(t)
    \/ \E t \in CacheTexts, e \in Embeddings : Set(t, e)
    \/ Clear
    \/ Tick

\* ------------------------------------------------------------------------
\* CachedEmbeddingService (08-optimization.md, 163-186)
\* ------------------------------------------------------------------------
CachedParked == cachedCalls = <<>>

\* super.embed(text) calls that have not settled yet
AwaitingSuper(text) ==
    {c \in 1..Len(cachedCalls) : cachedCalls[c].text = text /\ cachedCalls[c].pc = "await"}

\* embed(text) up to its first suspension: the cache lookup, then either the
\* cached result or the call of super.embed
CachedEmbed(text) ==
    /\ Len(cachedCalls) < MaxCachedCalls
    /\ cache' = CacheAfterGet(text)
    /\ recency' = RecencyAfterGet(text)
    /\ lastOp' = "get"
    /\ cachedCalls' = Append(cachedCalls,
          IF GetResult(text) # "null"
          THEN [text |-> text, pc |-> "done", embedding |-> GetResult(text), computed |-> FALSE]
          ELSE [text |-> text, pc |-> "await", embedding |-> "null", computed |-> TRUE])
    /\ UNCHANGED <<maxSize, ttlMs, now, lastSet>>
    /\ UNCHANGED notCache

\* super.embed resolves: the result is stored in the cache and returned
SuperEmbedResolves(c, embedding) ==
    /\ c \in 1..Len(cachedCalls)
    /\ cachedCalls[c].pc = "await"
    /\ cache' = CacheAfterSet(cachedCalls[c].text, embedding)
    /\ lastSet' = LastSetAfterSet(cachedCalls[c].text, embedding)
    /\ recency' = RecencyAfterSet(cachedCalls[c].text)
    /\ lastOp' = LastOpAfterSet(cachedCalls[c].text)
    /\ cachedCalls' = [cachedCalls EXCEPT ![c] = [@ EXCEPT !.pc = "done",
                                                           !.embedding = embedding]]
    /\ UNCHANGED <<maxSize, ttlMs, now>>
    /\ UNCHANGED notCache

\* super.embed rejects: the error goes to the caller, nothing is stored
SuperEmbedRejects(c) ==
    /\ c \in 1..Len(cachedCalls)
    /\ cachedCalls[c].pc = "await"
    /\ cachedCalls' = [cachedCalls EXCEPT ![c].pc = "failed"]
    /\ UNCHANGED <<cacheVars, cacheHistory>>
    /\ UNCHANGED notCache

CachedNext ==
    \/ \E t \in CacheTexts : CachedEmbed(t)
    \/ \E c \in 1..MaxCachedCalls, e \in Embeddings : SuperEmbedResolves(c, e)
    \/ \E c \in 1..MaxCachedCalls : SuperEmbedRejects(c)
    \/ Tick

\* ------------------------------------------------------------------------
\* Fixed-size chunking: IngestionService.chunkText (ingestion.ts, 23-34),
\* fixedSizeChunk of step-05-storage (index.ts, 90-105) and fixedSizeChunk of
\* src/lib/chunking/fixed-size.ts (README.md, 346-414)
\* ------------------------------------------------------------------------
Max(a, b) == IF a > b THEN a ELSE b

Chars == {"a", " ", ".", "\n"}

\* the text of the documented example, "ABCDEFGHIJ"
ExampleText == <<"A", "B", "C", "D", "E", "F", "G", "H", "I", "J">>

Texts == UNION {[1..n -> Chars] : n \in 0..MaxTextLen} \cup {ExampleText}

\* String.prototype.slice(start, end): a negative index counts from the end
SliceIndex(str, i) == IF i < 0 THEN Max(Len(str) + i, 0) ELSE Min(i, Len(str))

Slice(str, start, end) ==
    IF SliceIndex(str, start) >= SliceIndex(str, end) THEN <<>>
    ELSE SubSeq(str, SliceIndex(str, start) + 1, SliceIndex(str, end))

\* String.prototype.substring(start, end): indices are clamped, then ordered
Clamp(str, i) == Min(Max(i, 0), Len(str))

Substring(str, start, end) ==
    SubSeq(str, Min(Clamp(str, start), Clamp(str, end)) + 1,
                Max(Clamp(str, start), Clamp(str, end)))

\* String.prototype.lastIndexOf(pattern, fromIndex), 0-based, -1 when absent
LastIndexOf(str, pattern, fromIndex) ==
    LET found == {i \in 0..Min(Max(fromIndex, 0), Len(str) - Len(pattern)) :
                     SubSeq(str, i + 1, i + Len(pattern)) = pattern}
    IN IF found = {} THEN -1 ELSE CHOOSE i \in found : \A j \in found : j <= i

Whitespace == {" ", "\n"}

\* String.prototype.trim()
RECURSIVE Trim(_)
Trim(str) ==
    IF str = <<>> THEN str
    ELSE IF Head(str) \in Whitespace THEN Trim(Tail(str))
    ELSE IF str[Len(str)] \in Whitespace THEN Trim(SubSeq(str, 1, Len(str) - 1))
    ELSE str

\* const end = Math.min(start + size, text.length)
WindowEnd(start) == Min(start + chunkConfig.chunkSize, Len(srcText))

\* mutant: the step forgets the overlap
NextStartNoOverlap(start) == start + chunkConfig.chunkSize

\* start += size - overlap
NextStart(start) == start + (chunkConfig.chunkSize - chunkConfig.chunkOverlap)

\* fixed-size.ts: the end of the chunk after the boundary search
\* (lastPeriod > minEnd with minEnd = startIndex + chunkSize * 0.8, in fifths)
SnappedEnd(start) ==
    LET endIndex == WindowEnd(start)
        lastPeriod == LastIndexOf(srcText, <<".", " ">>, endIndex)
        lastNewline == LastIndexOf(srcText, <<"\n">>, endIndex)
        lastSpace == LastIndexOf(srcText, <<" ">>, endIndex)
        beyond(i) == 5 * i > 5 * start + 4 * chunkConfig.chunkSize
    IN IF endIndex < Len(srcText)
       THEN IF beyond(lastPeriod) THEN lastPeriod + 1
            ELSE IF beyond(lastNewline) THEN lastNewline
            ELSE IF beyond(lastSpace) THEN lastSpace
            ELSE endIndex
       ELSE endIndex

\* fixed-size.ts: startIndex = endIndex - chunkOverlap, with the guard after it
NextStartIndex(endIndex) ==
    IF endIndex - chunkConfig.chunkOverlap >= endIndex
    THEN endIndex
    ELSE endIndex - chunkConfig.chunkOverlap

ChunkInit ==
    /\ chunker \in {"chunkText", "step05", "readme", "recursive", "recursive05"}
    /\ srcText \in Texts
    /\ chunkConfig \in [chunkSize : 0..MaxChunkSize, chunkOverlap : 0..MaxChunkSize,
                        minChunkSize : 0..MaxMinChunkSize]
    /\ chunker \in {"chunkText", "step05", "recursive05"} => chunkConfig.minChunkSize = 0
    /\ chunker = "recursive05" => chunkConfig.chunkOverlap = 0
    /\ startIndex = 0
    /\ chunkIndex = 0
    /\ chunks = <<>>
    /\ iterations = 0
    /\ chunkPc = "loop"

ChunkParked ==
    /\ chunker = "chunkText"
    /\ srcText = <<>>
    /\ chunkConfig = [chunkSize |-> 1, chunkOverlap |-> 0, minChunkSize |-> 0]
    /\ startIndex = 0
    /\ chunkIndex = 0
    /\ chunks = <<>>
    /\ iterations = 0
    /\ chunkPc = "done"

\* the model follows a run for Len(text) + 1 iterations: a loop that advances
\* by at least one character per iteration has ended by then
Followed == iterations <= Len(srcText)

\* IngestionService.chunkText: one iteration of the while loop
ChunkTextStep ==
    /\ chunker = "chunkText" /\ chunkPc = "loop" /\ Followed
    /\ startIndex < Len(srcText)
    /\ chunks' = Append(chunks, [content |-> Slice(srcText, startIndex, WindowEnd(startIndex)),
                                 startIndex |-> startIndex, chunkIndex |-> chunkIndex,
                                 totalChunks |-> 0])
    /\ chunkIndex' = chunkIndex + 1
    /\ startIndex' = NextStart(startIndex)
    /\ iterations' = iterations + 1
    /\ UNCHANGED <<chunker, srcText, chunkConfig, chunkPc>>
    /\ UNCHANGED notChunk

\* step-05-storage fixedSizeChunk: one iteration of the while loop
FixedSizeChunk05Step ==
    /\ chunker = "step05" /\ chunkPc = "loop" /\ Followed
    /\ startIndex < Len(srcText)
    /\ chunks' = Append(chunks, [content |-> Substring(srcText, startIndex, WindowEnd(startIndex)),
                                 startIndex |-> startIndex, chunkIndex |-> chunkIndex,
                                 totalChunks |-> 0])
    /\ chunkIndex' = chunkIndex + 1
    /\ startIndex' = NextStart(startIndex)
    /\ iterations' = iterations + 1
    /\ UNCHANGED <<chunker, srcText, chunkConfig, chunkPc>>
    /\ UNCHANGED notChunk

\* fixed-size.ts fixedSizeChunk: one iteration of the while loop
FixedSizeChunkStep ==
    /\ chunker = "readme" /\ chunkPc = "loop" /\ Followed
    /\ startIndex < Len(srcText)
    /\ LET endIndex == SnappedEnd(startIndex)
           content == Trim(Slice(srcText, startIndex, endIndex))
       IN /\ IF Len(content) >= chunkConfig.minChunkSize
             THEN /\ chunks' = Append(chunks, [content |-> content,
                                               startIndex |-> startIndex,
                                               endIndex |-> endIndex,
                                               chunkIndex |-> chunkIndex,
                                               totalChunks |-> 0])
                  /\ chunkIndex' = chunkIndex + 1
             ELSE UNCHANGED <<chunks, chunkIndex>>
          /\ startIndex' = NextStartIndex(endIndex)
    /\ iterations' = iterations + 1
    /\ UNCHANGED <<chunker, srcText, chunkConfig, chunkPc>>
    /\ UNCHANGED notChunk

\* the loop condition fails: chunkText and step-05 return the chunks,
\* fixed-size.ts first writes totalChunks into every chunk
ChunkReturn ==
    /\ chunker \notin {"recursive", "recursive05"} /\ chunkPc = "loop"
    /\ ~(startIndex < Len(srcText))
    /\ chunks' = IF chunker = "readme"
                 THEN [k \in 1..Len(chunks) |-> [chunks[k] EXCEPT !.totalChunks = Len(chunks)]]
                 ELSE chunks
    /\ chunkPc' = "done"
    /\ UNCHANGED <<chunker, srcText, chunkConfig, startIndex, chunkIndex, iterations>>
    /\ UNCHANGED notChunk

\* DEFAULT_CHUNKING_CONFIG.separators
DefaultSeparators ==
    << <<"\n", "\n">>, <<"\n">>, <<".", " ">>, <<"!", " ">>, <<"?", " ">>,
       <<";", " ">>, <<",", " ">>, <<" ">> >>

\* String.prototype.indexOf(pattern), 0-based, -1 when absent
IndexOf(str, pattern) ==
    LET found == {i \in 0..(Len(str) - Len(pattern)) :
                     SubSeq(str, i + 1, i + Len(pattern)) = pattern}
    IN IF found = {} THEN -1 ELSE CHOOSE i \in found : \A j \in found : i <= j

\* String.prototype.split(separator) for a non-empty separator
RECURSIVE Split(_, _)
Split(str, separator) ==
    IF IndexOf(str, separator) = -1 THEN <<str>>
    ELSE <<SubSeq(str, 1, IndexOf(str, separator))>>
         \o Split(SubSeq(str, IndexOf(str, separator) + Len(separator) + 1, Len(str)),
                  separator)

\* Array.prototype.join(separator)
RECURSIVE Join(_, _)
Join(parts, separator) ==
    IF parts = <<>> THEN <<>>
    ELSE IF Len(parts) = 1 THEN parts[1]
    ELSE parts[1] \o separator \o Join(Tail(parts), separator)

\* stands in a list of pieces for a loop that never ends: the call that
\* computes such a list returns nothing
NeverReturns == <<"never returns">>

\* recursiveSplit: for (let i = 0; i < text.length; i += chunkSize - chunkOverlap)
RECURSIVE ForcedSplitFrom(_, _, _, _)
ForcedSplitFrom(str, i, chunkSize, chunkOverlap) ==
    IF ~(i < Len(str)) THEN <<>>
    ELSE IF chunkSize - chunkOverlap <= 0 THEN <<NeverReturns>>
    ELSE <<Slice(str, i, i + chunkSize)>>
         \o ForcedSplitFrom(str, i + (chunkSize - chunkOverlap), chunkSize, chunkOverlap)

\* allSeparators.slice(allSeparators.indexOf(separator) + 1)
RemainingSeparators(allSeparators, separator) ==
    SubSeq(allSeparators,
           (CHOOSE k \in 1..Len(allSeparators) : allSeparators[k] = separator) + 1,
           Len(allSeparators))

RECURSIVE recursiveSplit(_, _, _, _)

\* mergeSplits: what a finished group of splits adds to the results
MergedGroup(currentChunk, separator, chunkSize, chunkOverlap, allSeparators) ==
    IF Len(Join(currentChunk, separator)) > chunkSize
    THEN recursiveSplit(Join(currentChunk, separator),
                        RemainingSeparators(allSeparators, separator),
                        chunkSize, chunkOverlap)
    ELSE <<Join(currentChunk, separator)>>

\* mergeSplits: the loop over the splits from the k-th on, and what is left
RECURSIVE MergeFrom(_, _, _, _, _, _, _, _)
MergeFrom(splits, k, currentChunk, currentLength, separator, chunkSize, chunkOverlap, allSeparators) ==
    IF k > Len(splits)
    THEN IF Len(currentChunk) > 0
         THEN MergedGroup(currentChunk, separator, chunkSize, chunkOverlap, allSeparators)
         ELSE <<>>
    ELSE IF currentLength + Len(splits[k]) + Len(separator) > chunkSize
            /\ Len(currentChunk) > 0
         THEN MergedGroup(currentChunk, separator, chunkSize, chunkOverlap, allSeparators)
              \o MergeFrom(splits, k + 1, <<splits[k]>>, Len(splits[k]) + Len(separator),
                           separator, chunkSize, chunkOverlap, allSeparators)
         ELSE MergeFrom(splits, k + 1, Append(currentChunk, splits[k]),
                        currentLength + Len(splits[k]) + Len(separator),
                        separator, chunkSize, chunkOverlap, allSeparators)

mergeSplits(splits, separator, chunkSize, chunkOverlap, allSeparators) ==
    MergeFrom(splits, 1, <<>>, 0, separator, chunkSize, chunkOverlap, allSeparators)

recursiveSplit(str, separators, chunkSize, chunkOverlap) ==
    LET present == {k \in 1..Len(separators) : IndexOf(str, separators[k]) # -1}
        first == CHOOSE k \in present : \A j \in present : k <= j
    IN IF Len(str) <= chunkSize THEN <<str>>
       ELSE IF present # {}
            THEN mergeSplits(Split(str, separators[first]), separators[first],
                             chunkSize, chunkOverlap, separators)
            ELSE ForcedSplitFrom(str, 0, chunkSize, chunkOverlap)

\* recursiveChunk: the raw pieces that pass the minChunkSize filter
KeptChunks(str, config) ==
    SelectSeq(recursiveSplit(str, DefaultSeparators, config.chunkSize, config.chunkOverlap),
              LAMBDA content : Len(Trim(content)) >= config.minChunkSize)

\* mutant: the chunks keep the index of their raw piece
recursiveChunkRawIndex(str, config) ==
    LET rawChunks == recursiveSplit(str, DefaultSeparators, config.chunkSize,
                                    config.chunkOverlap)
        keptAt == {k \in 1..Len(rawChunks) :
                      Len(Trim(rawChunks[k])) >= config.minChunkSize}
        nth(n) == CHOOSE k \in keptAt : Cardinality({j \in keptAt : j < k}) = n - 1
    IN [n \in 1..Cardinality(keptAt) |->
           [content |-> Trim(rawChunks[nth(n)]),
            startIndex |-> IndexOf(str, rawChunks[nth(n)]),
            endIndex |-> IndexOf(str, rawChunks[nth(n)]) + Len(rawChunks[nth(n)]),
            chunkIndex |-> nth(n) - 1,
            totalChunks |-> Cardinality(keptAt)]]

\* recursiveChunk: filter, format, then write totalChunks into every chunk
recursiveChunk(str, config) ==
    [n \in 1..Len(KeptChunks(str, config)) |->
        [content |-> Trim(KeptChunks(str, config)[n]),
         startIndex |-> IndexOf(str, KeptChunks(str, config)[n]),
         endIndex |-> IndexOf(str, KeptChunks(str, config)[n])
                      + Len(KeptChunks(str, config)[n]),
         chunkIndex |-> n - 1,
         totalChunks |-> Len(KeptChunks(str, config))]]

\* recursive.ts recursiveChunk: the whole call, when its loops end
RecursiveChunk ==
    /\ chunker = "recursive" /\ chunkPc = "loop"
    /\ \A k \in 1..Len(recursiveSplit(srcText, DefaultSeparators, chunkConfig.chunkSize,
                                      chunkConfig.chunkOverlap)) :
          recursiveSplit(srcText, DefaultSeparators, chunkConfig.chunkSize,
                         chunkConfig.chunkOverlap)[k] # NeverReturns
    /\ chunks' = recursiveChunk(srcText, chunkConfig)
    /\ chunkPc' = "done"
    /\ UNCHANGED <<chunker, srcText, chunkConfig, startIndex, chunkIndex, iterations>>
    /\ UNCHANGED notChunk

\* step-05-storage recursiveChunk: separators = ['\n\n', '\n', ' ', '']
Separators05 == << <<"\n", "\n">>, <<"\n">>, <<" ">>, <<>> >>

\* text.split(separator), the empty separator giving the characters
Split05(str, separator) ==
    IF separator = <<>> THEN [k \in 1..Len(str) |-> <<str[k]>>] ELSE Split(str, separator)

\* step-05-storage recursiveChunk: the loop over the parts from the k-th on,
\* and the push of what is left
RECURSIVE MergeParts05(_, _, _, _, _)
MergeParts05(parts, k, current, separator, size) ==
    IF k > Len(parts)
    THEN IF current # <<>> THEN <<current>> ELSE <<>>
    ELSE IF Len(current \o parts[k]) > size
         THEN (IF current # <<>> THEN <<current>> ELSE <<>>)
              \o MergeParts05(parts, k + 1, parts[k], separator, size)
         ELSE MergeParts05(parts, k + 1,
                           current \o (IF current # <<>> THEN separator ELSE <<>>)
                                   \o parts[k],
                           separator, size)

\* step-05-storage recursiveChunk(text, maxSize)
recursiveChunk05(str, size) ==
    LET present == {k \in 1..Len(Separators05) :
                       Separators05[k] = <<>> \/ IndexOf(str, Separators05[k]) # -1}
        separator == Separators05[CHOOSE k \in present : \A j \in present : k <= j]
    IN IF Len(str) <= size THEN <<str>>
       ELSE MergeParts05(Split05(str, separator), 1, <<>>, separator, size)

\* step-05-storage recursiveChunk: the whole call
RecursiveChunk05 ==
    /\ chunker = "recursive05" /\ chunkPc = "loop"
    /\ chunks' = [k \in 1..Len(recursiveChunk05(srcText, chunkConfig.chunkSize)) |->
                     [content |-> recursiveChunk05(srcText, chunkConfig.chunkSize)[k]]]
    /\ chunkPc' = "done"
    /\ UNCHANGED <<chunker, srcText, chunkConfig, startIndex, chunkIndex, iterations>>
    /\ UNCHANGED notChunk

ChunkNext ==
    \/ RecursiveChunk05
    \/ ChunkTextStep
    \/ FixedSizeChunk05Step
    \/ FixedSizeChunkStep
    \/ RecursiveChunk
    \/ ChunkReturn

\* ------------------------------------------------------------------------
\* IndexTuner (index-tuner.ts) and VectorStore.createIndex
\* ------------------------------------------------------------------------
\* the row counts the table takes
RowCounts == {0, 500, 999, 1000, 1001, 5000, 99999, 100000, 100001, 150000}

\* Math.ceil(Math.sqrt(n)): the least integer k with k * k >= n
CeilSqrt(n) == CHOOSE k \in 0..n : k * k >= n /\ (k = 0 \/ (k - 1) * (k - 1) < n)

\* the greatest integer k with k * k <= n
FloorSqrt(n) == IF CeilSqrt(n) * CeilSqrt(n) = n THEN CeilSqrt(n) ELSE CeilSqrt(n) - 1

\* Math.ceil(Math.sqrt(n) / 10): the least integer p with 10 * p >= sqrt(n)
CeilSqrtTenth(n) ==
    CHOOSE p \in 0..n : 100 * p * p >= n /\ (p = 0 \/ 100 * (p - 1) * (p - 1) < n)

\* { indexType, params }; a parameter the object does not have is 0
Config(indexType, lists, probes, m, ef_construction, ef_search) ==
    [indexType |-> indexType, lists |-> lists, probes |-> probes, m |-> m,
     ef_construction |-> ef_construction, ef_search |-> ef_search]

NoRecommendation == Config("unset", 0, 0, 0, 0, 0)

RecommendConfigFloorLists(n) ==
    IF n < 1000 THEN Config("none", 0, 0, 0, 0, 0)
    ELSE IF n < 100000 THEN Config("ivfflat", FloorSqrt(n), CeilSqrtTenth(n), 0, 0, 0)
    ELSE Config("hnsw", 0, 0, 16, 64, 40)

\* IndexTuner.recommendConfig, for stats.rowCount = n
RecommendConfig(n) ==
    IF n < 1000 THEN Config("none", 0, 0, 0, 0, 0)
    ELSE IF n < 100000 THEN Config("ivfflat", CeilSqrt(n), CeilSqrtTenth(n), 0, 0, 0)
    ELSE Config("hnsw", 0, 0, 16, 64, 40)

\* an index as pg_indexes and its WITH clause describe it
Index(method, lists, m, ef_construction) ==
    [method |-> method, lists |-> lists, m |-> m, ef_construction |-> ef_construction]

NoIndex == Index("absent", 0, 0, 0)

\* the statements IndexTuner.optimize executes for a recommendation
OptimizeStatements(r) ==
    IF r.indexType = "none" THEN <<"DROP">>
    ELSE IF r.indexType \in {"ivfflat", "hnsw"} THEN <<"DROP", "CREATE">>
    ELSE <<>>

\* the index the CREATE INDEX of IndexTuner.optimize makes
OptimizeIndex(r) ==
    IF r.indexType = "ivfflat" THEN Index("ivfflat", r.lists, 0, 0)
    ELSE IF r.indexType = "hnsw" THEN Index("hnsw", 0, r.m, r.ef_construction)
    ELSE NoIndex

\* VectorStoreConfig, the index part; DEFAULT_VECTOR_STORE_CONFIG fills the rest
StoreConfigs ==
    [indexType : {"none", "ivfflat", "hnsw"}, ivfflatLists : {10, 100}, hnswM : {16},
     hnswEfConstruction : {64}]

DefaultStoreConfig ==
    [indexType |-> "none", ivfflatLists |-> 100, hnswM |-> 16, hnswEfConstruction |-> 64]

\* VectorStore.createIndex: the statements it executes on a database whose
\* embedding index is ix
CreateIndexStatements(ix, cfg) ==
    IF ix # NoIndex THEN <<>>
    ELSE IF cfg.indexType \in {"ivfflat", "hnsw"} THEN <<"CREATE">>
    ELSE <<>>

\* VectorStore.createIndex: the embedding index afterwards
CreateIndexResult(ix, cfg) ==
    IF ix # NoIndex THEN ix
    ELSE IF cfg.indexType = "ivfflat" THEN Index("ivfflat", cfg.ivfflatLists, 0, 0)
    ELSE IF cfg.indexType = "hnsw" THEN Index("hnsw", 0, cfg.hnswM, cfg.hnswEfConstruction)
    ELSE ix

TunerInit ==
    /\ rowCount \in RowCounts
    /\ embeddingIndex = NoIndex
    /\ recommendation = NoRecommendation
    /\ storeConfig = DefaultStoreConfig
    /\ ddl = <<>>
    /\ indexBefore = NoIndex
    /\ tunerOp = "new"

TunerParked ==
    /\ rowCount = 0
    /\ embeddingIndex = NoIndex
    /\ recommendation = NoRecommendation
    /\ storeConfig = DefaultStoreConfig
    /\ ddl = <<>>
    /\ indexBefore = NoIndex
    /\ tunerOp = "new"

\* rows are added to or deleted from the table between two calls
RowsChange ==
    /\ rowCount' \in RowCounts \ {rowCount}
    /\ ddl' = <<>>
    /\ indexBefore' = embeddingIndex
    /\ tunerOp' = "rows"
    /\ UNCHANGED <<embeddingIndex, recommendation, storeConfig>>
    /\ UNCHANGED notTuner

\* IndexTuner.recommendConfig()
Recommend ==
    /\ recommendation' = RecommendConfig(rowCount)
    /\ ddl' = <<>>
    /\ indexBefore' = embeddingIndex
    /\ tunerOp' = "recommendConfig"
    /\ UNCHANGED <<rowCount, embeddingIndex, storeConfig>>
    /\ UNCHANGED notTuner

\* IndexTuner.optimize()
Optimize ==
    /\ recommendation' = RecommendConfig(rowCount)
    /\ ddl' = OptimizeStatements(recommendation')
    /\ embeddingIndex' = OptimizeIndex(recommendation')
    /\ indexBefore' = embeddingIndex
    /\ tunerOp' = "optimize"
    /\ UNCHANGED <<rowCount, storeConfig>>
    /\ UNCHANGED notTuner

\* new VectorStore(cfg).initialize() on the same database: createIndex runs
\* unless cfg.indexType is 'none'
StoreInitialize ==
    /\ \E cfg \in StoreConfigs :
        /\ storeConfig' = cfg
        /\ ddl' = IF cfg.indexType # "none"
                  THEN CreateIndexStatements(embeddingIndex, cfg) ELSE <<>>
        /\ embeddingIndex' = IF cfg.indexType # "none"
                             THEN CreateIndexResult(embeddingIndex, cfg) ELSE embeddingIndex
    /\ indexBefore' = embeddingIndex
    /\ tunerOp' = "initialize"
    /\ UNCHANGED <<rowCount, recommendation>>
    /\ UNCHANGED notTuner

TunerNext ==
    \/ RowsChange
    \/ Recommend
    \/ Optimize
    \/ StoreInitialize

\* ------------------------------------------------------------------------
\* VectorStore.search, SemanticSearchService and RAGPipeline
\* ------------------------------------------------------------------------
\* Similarities and thresholds are in tenths: 3 stands for 0.3.
MaxStored == 3
MaxLimit == 2
MaxContextChunks == 2

Similarities == {2, 3, 5}
Thresholds == {3, 6}
ContentLengths == {12, 16, 17}
TokenBudgets == {0, 9, 10}

\* a row of the table, as far as a search reads it: the length of content,
\* the cosine similarity of embedding to the query, and whether metadata
\* contains the filter of the query
Rows == [chars : ContentLengths, sim : Similarities, matches : BOOLEAN]

\* the tables of at most MaxStored rows, in the physical order of the rows
Tables(rowSet) == UNION {[1..n -> rowSet] : n \in 0..MaxStored}

\* ORDER BY embedding <=> $1: the rows by increasing distance. SQL leaves the
\* order of rows of equal distance open; the sort returns them in their
\* physical order, and the tables range over every physical order.
Ordered(ids) ==
    CHOOSE o \in [1..Cardinality(ids) -> ids] :
        \A i, j \in 1..Cardinality(ids) :
            i < j => \/ searchRows[o[i]].sim > searchRows[o[j]].sim
                     \/ searchRows[o[i]].sim = searchRows[o[j]].sim /\ o[i] < o[j]

\* LIMIT $3
Limit(rowSeq, limit) == SubSeq(rowSeq, 1, Min(limit, Len(rowSeq)))

\* VectorStore.search(queryEmbedding, limit, threshold)
VectorSearch(limit, threshold) ==
    Limit(Ordered({i \in DOMAIN searchRows : searchRows[i].sim >= threshold}), limit)

\* VectorStore.searchWithFilter(queryEmbedding, filter, limit)
SearchWithFilter(limit) ==
    Limit(Ordered({i \in DOMAIN searchRows : searchRows[i].matches}), limit)

\* search, step 2: the vector store is asked for twice the limit
VectorResults(q) ==
    IF q.filtered THEN SearchWithFilter(q.limit * 2)
    ELSE VectorSearch(q.limit * 2, q.threshold)

AboveThreshold(vectorResults, threshold) ==
    SelectSeq(vectorResults, LAMBDA i : searchRows[i].sim >= threshold)

RespondUnfiltered(vectorResults, q) ==
    [results |-> [k \in 1..Len(Slice(vectorResults, 0, q.limit)) |->
                     [id |-> vectorResults[k], score |-> searchRows[vectorResults[k]].sim,
                      rank |-> k]],
     totalMatches |-> Len(vectorResults)]

\* search, steps 3 and 4 and the response: filter by threshold, slice to the
\* limit, rank from 1; totalMatches is filteredResults.length
Respond(vectorResults, q) ==
    [results |-> [k \in 1..Len(Slice(AboveThreshold(vectorResults, q.threshold), 0, q.limit)) |->
                     [id |-> AboveThreshold(vectorResults, q.threshold)[k],
                      score |-> searchRows[AboveThreshold(vectorResults, q.threshold)[k]].sim,
                      rank |-> k]],
     totalMatches |-> Len(AboveThreshold(vectorResults, q.threshold))]

\* SemanticSearchService.search(query)
SearchResponse(q) == Respond(VectorResults(q), q)

\* estimateTokens: Math.ceil(text.length / 4)
estimateTokens(chars) == (chars + 3) \div 4

RECURSIVE TruncateFrom(_, _, _, _)
TruncateFrom(resultItems, k, currentTokens, maxTokens) ==
    IF k > Len(resultItems) THEN <<>>
    ELSE IF currentTokens + estimateTokens(searchRows[resultItems[k].id].chars) > maxTokens
         THEN <<>>
         ELSE <<resultItems[k].id>> \o
              TruncateFrom(resultItems, k + 1,
                           currentTokens + estimateTokens(searchRows[resultItems[k].id].chars),
                           maxTokens)

RECURSIVE BackfillFrom(_, _, _, _)
BackfillFrom(resultItems, k, currentTokens, maxTokens) ==
    IF k > Len(resultItems) THEN <<>>
    ELSE IF currentTokens + estimateTokens(searchRows[resultItems[k].id].chars) > maxTokens
         THEN BackfillFrom(resultItems, k + 1, currentTokens, maxTokens)
         ELSE <<resultItems[k].id>> \o
              BackfillFrom(resultItems, k + 1,
                           currentTokens + estimateTokens(searchRows[resultItems[k].id].chars),
                           maxTokens)

truncateContextBackfill(resultItems, maxTokens) == BackfillFrom(resultItems, 1, 0, maxTokens)

\* truncateContext(chunks, maxTokens), as the ids of the chunks returned
truncateContext(resultItems, maxTokens) == TruncateFrom(resultItems, 1, 0, maxTokens)

\* searchForContext: the loop that combines results up to maxTokens
CombineUpTo(resultItems, maxTokens) == TruncateFrom(resultItems, 1, 0, maxTokens)

NoResponse == [results |-> <<>>, totalMatches |-> 0]

\* DEFAULT_SEARCH_OPTIONS, with no filters
DefaultSearchQuery == [limit |-> 5, threshold |-> 3, filtered |-> FALSE]

\* DEFAULT_RAG_OPTIONS
DefaultRagQuery == [maxContextChunks |-> 5, maxContextTokens |-> 2000, includeSources |-> TRUE]

NoRagResponse == [chunksUsed |-> 0, sources |-> <<>>]

SearchInitFrom(rowSet) ==
    /\ searchRows \in Tables(rowSet)
    /\ searchQuery = DefaultSearchQuery
    /\ response = NoResponse
    /\ ragQuery = DefaultRagQuery
    /\ ragResponse = NoRagResponse
    /\ contextChunks = <<>>
    /\ contextBudget = 0
    /\ searchOp = "new"

\* a search reads no content: every row has the same length
SearchInit == SearchInitFrom({r \in Rows : r.chars = 12})

\* the RAG pipeline searches without filters and with the threshold 0.3: a
\* row is below it or above it
RagInit == SearchInitFrom({r \in Rows : r.matches /\ r.sim # 3})

SearchParked ==
    /\ searchRows = <<>>
    /\ searchQuery = DefaultSearchQuery
    /\ response = NoResponse
    /\ ragQuery = DefaultRagQuery
    /\ ragResponse = NoRagResponse
    /\ contextChunks = <<>>
    /\ contextBudget = 0
    /\ searchOp = "new"

\* SemanticSearchService.search(query)
Search ==
    /\ \E limit \in 0..MaxLimit, threshold \in Thresholds, filtered \in BOOLEAN :
        /\ searchQuery' = [limit |-> limit, threshold |-> threshold, filtered |-> filtered]
        /\ response' = SearchResponse(searchQuery')
    /\ contextChunks' = <<>>
    /\ contextBudget' = 0
    /\ searchOp' = "search"
    /\ UNCHANGED <<searchRows, ragQuery, ragResponse>>
    /\ UNCHANGED notSearch

\* SemanticSearchService.searchForContext(query, maxTokens)
SearchForContext ==
    /\ \E maxTokens \in TokenBudgets :
        /\ searchQuery' = [limit |-> 10, threshold |-> 3, filtered |-> FALSE]
        /\ response' = SearchResponse(searchQuery')
        /\ contextChunks' = CombineUpTo(response'.results, maxTokens)
        /\ contextBudget' = maxTokens
    /\ ragQuery' = DefaultRagQuery
    /\ ragResponse' = NoRagResponse
    /\ searchOp' = "searchForContext"
    /\ UNCHANGED searchRows
    /\ UNCHANGED notSearch

\* RAGPipeline.query(query)
RagQuery ==
    /\ \E maxContextChunks \in 0..MaxContextChunks, maxContextTokens \in TokenBudgets,
          includeSources \in BOOLEAN :
        /\ ragQuery' = [maxContextChunks |-> maxContextChunks,
                        maxContextTokens |-> maxContextTokens,
                        includeSources |-> includeSources]
        /\ searchQuery' = [limit |-> maxContextChunks * 2, threshold |-> 3, filtered |-> FALSE]
        /\ response' = SearchResponse(searchQuery')
        /\ contextChunks' = truncateContext(response'.results, maxContextTokens)
        /\ contextBudget' = maxContextTokens
        /\ ragResponse' = [chunksUsed |-> Len(contextChunks'),
                           sources |-> IF includeSources THEN contextChunks' ELSE <<>>]
    /\ searchOp' = "query"
    /\ UNCHANGED searchRows
    /\ UNCHANGED notSearch

SearchNext == Search

RagNext ==
    \/ SearchForContext
    \/ RagQuery

\* ------------------------------------------------------------------------
\* diversifyResults
\* ------------------------------------------------------------------------
MaxCandidates == 5
MaxPerDocument == 2

DocumentIds == {"doc1", "doc2"}

\* a SearchResultItem, as far as diversifyResults reads it
ResultItems == [documentId : DocumentIds, rank : 1..MaxCandidates]

\* the ranked result lists of at most MaxCandidates items
RankedLists ==
    UNION {{l \in [1..n -> ResultItems] : \A k \in 1..n : l[k].rank = k} : n \in 0..MaxCandidates}

\* new Map<string, number>()
NoCounts == [d \in DocumentIds |-> 0]

RECURSIVE DiversifyFromInclusive(_, _, _, _)
DiversifyFromInclusive(resultItems, k, documentCounts, limit) ==
    IF k > Len(resultItems) THEN <<>>
    ELSE IF documentCounts[resultItems[k].documentId] <= limit
         THEN <<resultItems[k]>> \o
              DiversifyFromInclusive(resultItems, k + 1,
                  [documentCounts EXCEPT ![resultItems[k].documentId] = @ + 1], limit)
         ELSE DiversifyFromInclusive(resultItems, k + 1, documentCounts, limit)

\* the for loop of diversifyResults from item k on; `get(docId) || 0` reads
\* 0 for a document not yet counted
RECURSIVE DiversifyFrom(_, _, _, _)
DiversifyFrom(resultItems, k, documentCounts, limit) ==
    IF k > Len(resultItems) THEN <<>>
    ELSE IF documentCounts[resultItems[k].documentId] < limit
         THEN <<resultItems[k]>> \o
              DiversifyFrom(resultItems, k + 1,
                  [documentCounts EXCEPT ![resultItems[k].documentId] = @ + 1], limit)
         ELSE DiversifyFrom(resultItems, k + 1, documentCounts, limit)

diversifyResultsInclusive(resultItems, limit) ==
    DiversifyFromInclusive(resultItems, 1, NoCounts, limit)

diversifyResults(resultItems, limit) == DiversifyFrom(resultItems, 1, NoCounts, limit)

DiversifyInit ==
    /\ candidates \in RankedLists
    /\ maxPerDocument \in 0..MaxPerDocument
    /\ diversified = <<>>
    /\ diversifyPc = "call"

DiversifyParked ==
    /\ candidates = <<>>
    /\ maxPerDocument = 2
    /\ diversified = <<>>
    /\ diversifyPc = "done"

\* diversifyResults(results, maxPerDocument)
Diversify ==
    /\ diversifyPc = "call"
    /\ diversified' = diversifyResults(candidates, maxPerDocument)
    /\ diversifyPc' = "done"
    /\ UNCHANGED <<candidates, maxPerDocument>>
    /\ UNCHANGED notDiversify

DiversifyNext == Diversify

\* ------------------------------------------------------------------------
\* VectorStore.addChunk / addChunks and IngestionService.ingest
\* ------------------------------------------------------------------------
MaxChunks == 2
MaxPlainRows == 3

StoredDocumentIds == {"d1", "d2"}
Versions == {"v1", "v2"}

\* a document as the pipeline chunks it: its text is version v, which
\* yields n chunks
Contents == [version : Versions, count : 1..MaxChunks]

\* generateChunkId(documentId, chunkIndex): `chunk-${hash}-${chunkIndex}`;
\* the 8 hex digits of the md5 digest are distinct for the document ids here
generateChunkId(documentId, index) == <<"chunk", documentId, index>>

\* embeddingService.embed(content): the embedding is a function of the content
EmbeddingOf(content) == <<"embedding", content>>

\* IngestionPipeline.ingest(document): the IngestedChunks of document d with
\* content c; chunk k has index k - 1
IngestedChunks(d, c) ==
    [k \in 1..c.count |->
        [id |-> generateChunkId(d, k - 1), content |-> <<c.version, k>>,
         embedding |-> EmbeddingOf(<<c.version, k>>),
         metadata |-> [documentId |-> d, chunkIndex |-> k - 1, totalChunks |-> c.count]]]

\* the row INSERT makes of a chunk
RowOf(chunk) ==
    [chunk_id |-> chunk.id, document_id |-> chunk.metadata.documentId,
     content |-> chunk.content, embedding |-> chunk.embedding, metadata |-> chunk.metadata]

\* the position of the row with this chunk_id, 0 when there is none
RowWith(table, chunkId) ==
    IF \E i \in 1..Len(table) : table[i].chunk_id = chunkId
    THEN CHOOSE i \in 1..Len(table) : table[i].chunk_id = chunkId
    ELSE 0

\* VectorStore.addChunk: INSERT ... ON CONFLICT (chunk_id) DO UPDATE SET
\* content, embedding, metadata; document_id is left as it was
addChunk(table, chunk) ==
    IF RowWith(table, chunk.id) = 0
    THEN Append(table, RowOf(chunk))
    ELSE [table EXCEPT ![RowWith(table, chunk.id)] =
              [@ EXCEPT !.content = chunk.content, !.embedding = chunk.embedding,
                        !.metadata = chunk.metadata]]

\* VectorStore.deleteDocument: DELETE FROM <table> WHERE document_id = $1
deleteDocument(table, d) == SelectSeq(table, LAMBDA r : r.document_id # d)

\* IngestionService.ingest: the rows its INSERTs make of content c; the table
\* of VectorDatabase has neither chunk_id nor document_id
PlainRows(c) ==
    [k \in 1..c.count |->
        [chunk_id |-> <<>>, document_id |-> "", content |-> <<c.version, k>>,
         embedding |-> EmbeddingOf(<<c.version, k>>), metadata |-> "{}"]]

NoContent == [version |-> "none", count |-> 0]

NoAdd == [added |-> <<>>, existed |-> FALSE, rowsBefore |-> 0]

StoreInit ==
    /\ storeKind \in {"vectorStore", "ingestionService"}
    /\ documents = <<>>
    /\ pendingChunks = <<>>
    /\ latest = [d \in StoredDocumentIds |-> NoContent]
    /\ ingestedBefore = {}
    /\ docsBefore = <<>>
    /\ lastAdd = NoAdd
    /\ storeOp = "new"

StoreParked ==
    /\ storeKind = "vectorStore"
    /\ documents = <<>>
    /\ pendingChunks = <<>>
    /\ latest = [d \in StoredDocumentIds |-> NoContent]
    /\ ingestedBefore = {}
    /\ docsBefore = <<>>
    /\ lastAdd = NoAdd
    /\ storeOp = "new"

\* result = await pipeline.ingest(doc); vectorStore.addChunks(result.chunks)
\* begins: the loop has all chunks before it
IngestDocument ==
    /\ storeKind = "vectorStore" /\ pendingChunks = <<>>
    /\ \E d \in StoredDocumentIds, c \in Contents :
        /\ pendingChunks' = IngestedChunks(d, c)
        /\ latest' = [latest EXCEPT ![d] = c]
        /\ storeOp' = IF latest[d] = c THEN "ingestAgain" ELSE "ingest"
    /\ docsBefore' = documents
    /\ lastAdd' = NoAdd
    /\ UNCHANGED <<storeKind, documents, ingestedBefore>>
    /\ UNCHANGED notStore

\* addChunks: one iteration of the loop, addChunk(chunks[i])
AddChunk ==
    /\ storeKind = "vectorStore" /\ pendingChunks # <<>>
    /\ documents' = addChunk(documents, Head(pendingChunks))
    /\ pendingChunks' = Tail(pendingChunks)
    /\ lastAdd' = [added |-> <<Head(pendingChunks)>>,
                   existed |-> RowWith(documents, Head(pendingChunks).id) # 0,
                   rowsBefore |-> Len(documents)]
    /\ storeOp' = IF storeOp \in {"ingestAgain", "addChunkAgain"}
                  THEN IF pendingChunks' = <<>> THEN "storedAgain" ELSE "addChunkAgain"
                  ELSE IF pendingChunks' = <<>> THEN "stored" ELSE "addChunk"
    /\ UNCHANGED <<storeKind, latest, ingestedBefore, docsBefore>>
    /\ UNCHANGED notStore

\* VectorStore.deleteDocument(documentId)
DeleteDocument ==
    /\ storeKind = "vectorStore" /\ pendingChunks = <<>>
    /\ \E d \in StoredDocumentIds :
        /\ documents' = deleteDocument(documents, d)
        /\ latest' = [latest EXCEPT ![d] = NoContent]
    /\ docsBefore' = documents
    /\ lastAdd' = NoAdd
    /\ storeOp' = "deleteDocument"
    /\ UNCHANGED <<storeKind, pendingChunks, ingestedBefore>>
    /\ UNCHANGED notStore

\* IngestionService.ingest(content): one INSERT per chunk
PlainIngest ==
    /\ storeKind = "ingestionService"
    /\ \E c \in Contents :
        /\ Len(documents) + c.count <= MaxPlainRows
        /\ documents' = documents \o PlainRows(c)
        /\ ingestedBefore' = ingestedBefore \cup {c}
        /\ storeOp' = IF c \in ingestedBefore THEN "ingestedAgain" ELSE "ingested"
    /\ docsBefore' = documents
    /\ UNCHANGED <<storeKind, pendingChunks, latest, lastAdd>>
    /\ UNCHANGED notStore

\* IngestionService.ingest(content) rejects: EmbeddingService.generate or the
\* INSERT of the j-th chunk fails, after the INSERTs of the chunks before it
PlainIngestFails ==
    /\ storeKind = "ingestionService"
    /\ \E c \in Contents, j \in 1..MaxChunks :
        /\ j <= c.count
        /\ Len(documents) + (j - 1) <= MaxPlainRows
        /\ documents' = documents \o SubSeq(PlainRows(c), 1, j - 1)
    /\ storeOp' = "ingestFailed"
    /\ docsBefore' = documents
    /\ UNCHANGED <<storeKind, pendingChunks, latest, ingestedBefore, lastAdd>>
    /\ UNCHANGED notStore

StoreNext ==
    \/ IngestDocument
    \/ AddChunk
    \/ DeleteDocument
    \/ PlainIngest
    \/ PlainIngestFails

\* ------------------------------------------------------------------------
\* Sandbox.handleSearch (Sandbox.tsx, 69-102), AnswerService (answer.ts) and
\* GeneralKnowledgeService.answer (general.ts, 27-49)
\* ------------------------------------------------------------------------
MaxSegments == 3

\* const finalAnswerMarker = 'Final Answer:'
finalAnswerMarker == <<"F", "i", "n", "a", "l", " ", "A", "n", "s", "w", "e", "r", ":">>

\* the pieces the generated texts of the model are made of: the marker, white
\* space and an answer
Segments == {finalAnswerMarker, <<" ">>, <<"Y">>}

RECURSIVE Concat(_)
Concat(parts) == IF parts = <<>> THEN <<>> ELSE Head(parts) \o Concat(Tail(parts))

\* result[0].generated_text of the answer model
GeneratedTexts == {Concat(parts) : parts \in UNION {[1..n -> Segments] : n \in 0..MaxSegments}}

\* result[0].generated_text of the general-knowledge model
WorldTexts == {<<"W">>}

\* how many rows SearchService.search(searchQuery, 5) gives: none or some
ResultCounts == {0, 5}

\* mutant: the answer starts at the marker instead of after it
parseFinalAnswerFromMarker(rawResult) ==
    IF IndexOf(rawResult, finalAnswerMarker) # -1
    THEN Trim(Substring(rawResult, IndexOf(rawResult, finalAnswerMarker), Len(rawResult)))
    ELSE Trim(rawResult)

\* AnswerService.parseFinalAnswer
parseFinalAnswer(rawResult) ==
    IF IndexOf(rawResult, finalAnswerMarker) # -1
    THEN Trim(Substring(rawResult,
                        IndexOf(rawResult, finalAnswerMarker) + Len(finalAnswerMarker),
                        Len(rawResult)))
    ELSE Trim(rawResult)

\* the searches a user submits one after another: handleSearch runs once for each
QueryIds == {1, 2}

SandboxInit ==
    /\ sandboxResults = 0
    /\ localAnswer = <<>>
    /\ worldAnswer = <<>>
    /\ isSearching = FALSE
    /\ isAnsweringLocal = FALSE
    /\ isAnsweringWorld = FALSE
    /\ localPromise = [q \in QueryIds |-> "idle"]
    /\ worldPromise = [q \in QueryIds |-> "idle"]
    /\ generatedText = <<>>
    /\ errorLogged = FALSE
    /\ sandboxPc = [q \in QueryIds |-> "idle"]
    /\ submitted = 0
    /\ shown = [results |-> 0, localAnswer |-> 0, worldAnswer |-> 0]

SandboxParked ==
    /\ sandboxResults = 0
    /\ localAnswer = <<>>
    /\ worldAnswer = <<>>
    /\ isSearching = FALSE
    /\ isAnsweringLocal = FALSE
    /\ isAnsweringWorld = FALSE
    /\ localPromise = [q \in QueryIds |-> "idle"]
    /\ worldPromise = [q \in QueryIds |-> "idle"]
    /\ generatedText = <<>>
    /\ errorLogged = FALSE
    /\ sandboxPc = [q \in QueryIds |-> "done"]
    /\ submitted = 0
    /\ shown = [results |-> 0, localAnswer |-> 0, worldAnswer |-> 0]

\* handleSearch up to the await of SearchService.search. The button is disabled
\* while isSearching, the Enter key of the input calls handleSearch at any time
HandleSearch(q) ==
    /\ q = submitted + 1
    /\ submitted' = q
    /\ isSearching' = TRUE
    /\ localAnswer' = <<>>
    /\ worldAnswer' = <<>>
    /\ sandboxResults' = 0
    /\ shown' = [results |-> 0, localAnswer |-> 0, worldAnswer |-> 0]
    /\ generatedText' = <<>>
    /\ sandboxPc' = [sandboxPc EXCEPT ![q] = "searching"]
    /\ UNCHANGED <<isAnsweringLocal, isAnsweringWorld, localPromise, worldPromise,
                   errorLogged>>
    /\ UNCHANGED notSandbox

\* the search resolves: both answer promises are started, Promise.all awaits
SearchResolves(q) ==
    /\ sandboxPc[q] = "searching"
    /\ \E n \in ResultCounts :
          /\ sandboxResults' = n
          /\ isAnsweringLocal' = IF n > 0 THEN TRUE ELSE isAnsweringLocal
          /\ localPromise' = [localPromise EXCEPT ![q] = IF n > 0 THEN "pending" ELSE "fulfilled"]
    /\ shown' = [shown EXCEPT !.results = q]
    /\ isAnsweringWorld' = TRUE
    /\ worldPromise' = [worldPromise EXCEPT ![q] = "pending"]
    /\ sandboxPc' = [sandboxPc EXCEPT ![q] = "answering"]
    /\ UNCHANGED <<localAnswer, worldAnswer, isSearching, generatedText, errorLogged,
                   submitted>>
    /\ UNCHANGED notSandbox

\* the search rejects: catch logs, finally clears isSearching
SearchRejects(q) ==
    /\ sandboxPc[q] = "searching"
    /\ errorLogged' = TRUE
    /\ isSearching' = FALSE
    /\ sandboxPc' = [sandboxPc EXCEPT ![q] = "done"]
    /\ UNCHANGED <<sandboxResults, localAnswer, worldAnswer, isAnsweringLocal,
                   isAnsweringWorld, localPromise, worldPromise, generatedText,
                   submitted, shown>>
    /\ UNCHANGED notSandbox

\* AnswerService.answer resolves with the parsed text of the model
LocalAnswerResolves(q) ==
    /\ localPromise[q] = "pending"
    /\ \E rawResult \in GeneratedTexts :
          /\ generatedText' = rawResult
          /\ localAnswer' = parseFinalAnswer(rawResult)
    /\ shown' = [shown EXCEPT !.localAnswer = q]
    /\ isAnsweringLocal' = FALSE
    /\ localPromise' = [localPromise EXCEPT ![q] = "fulfilled"]
    /\ UNCHANGED <<sandboxResults, worldAnswer, isSearching, isAnsweringWorld,
                   worldPromise, errorLogged, sandboxPc, submitted>>
    /\ UNCHANGED notSandbox

\* AnswerService.answer rejects: the rest of localRagPromise does not run
LocalAnswerRejects(q) ==
    /\ localPromise[q] = "pending"
    /\ localPromise' = [localPromise EXCEPT ![q] = "rejected"]
    /\ UNCHANGED <<sandboxResults, localAnswer, worldAnswer, isSearching,
                   isAnsweringLocal, isAnsweringWorld, worldPromise, generatedText,
                   errorLogged, sandboxPc, submitted, shown>>
    /\ UNCHANGED notSandbox

\* GeneralKnowledgeService.answer resolves with the text of the model
WorldAnswerResolves(q) ==
    /\ worldPromise[q] = "pending"
    /\ \E answer \in WorldTexts : worldAnswer' = answer
    /\ shown' = [shown EXCEPT !.worldAnswer = q]
    /\ isAnsweringWorld' = FALSE
    /\ worldPromise' = [worldPromise EXCEPT ![q] = "fulfilled"]
    /\ UNCHANGED <<sandboxResults, localAnswer, isSearching, isAnsweringLocal,
                   localPromise, generatedText, errorLogged, sandboxPc, submitted>>
    /\ UNCHANGED notSandbox

\* GeneralKnowledgeService.answer rejects
WorldAnswerRejects(q) ==
    /\ worldPromise[q] = "pending"
    /\ worldPromise' = [worldPromise EXCEPT ![q] = "rejected"]
    /\ UNCHANGED <<sandboxResults, localAnswer, worldAnswer, isSearching,
                   isAnsweringLocal, isAnsweringWorld, localPromise, generatedText,
                   errorLogged, sandboxPc, submitted, shown>>
    /\ UNCHANGED notSandbox

\* Promise.all settles, as soon as one promise rejects or when both have
\* fulfilled: catch logs the rejection, finally clears isSearching
PromiseAllSettles(q) ==
    /\ sandboxPc[q] = "answering"
    /\ \/ /\ "rejected" \in {localPromise[q], worldPromise[q]}
          /\ errorLogged' = TRUE
       \/ /\ localPromise[q] = "fulfilled" /\ worldPromise[q] = "fulfilled"
          /\ UNCHANGED errorLogged
    /\ isSearching' = FALSE
    /\ sandboxPc' = [sandboxPc EXCEPT ![q] = "done"]
    /\ UNCHANGED <<sandboxResults, localAnswer, worldAnswer, isAnsweringLocal,
                   isAnsweringWorld, localPromise, worldPromise, generatedText,
                   submitted, shown>>
    /\ UNCHANGED notSandbox

SandboxNext ==
    \/ \E q \in QueryIds : HandleSearch(q)
    \/ \E q \in QueryIds : SearchResolves(q)
    \/ \E q \in QueryIds : SearchRejects(q)
    \/ \E q \in QueryIds : LocalAnswerResolves(q)
    \/ \E q \in QueryIds : LocalAnswerRejects(q)
    \/ \E q \in QueryIds : WorldAnswerResolves(q)
    \/ \E q \in QueryIds : WorldAnswerRejects(q)
    \/ \E q \in QueryIds : PromiseAllSettles(q)

\* ------------------------------------------------------------------------
\* VectorStore.initialize / close / ensureInitialized (vector-store.ts),
\* SemanticSearchService.initialize / search (search-service.ts) and
\* RAGPipeline.initialize / query (rag-pipeline.ts)
\* ------------------------------------------------------------------------
\* what an awaited collaborator call that was made can end with
CallOutcomes == {"ok", "failed"}

\* the fields of RAGResponse.metadata
ResponseMetadata ==
    {"retrievalTime", "generationTime", "totalTime", "chunksUsed", "contextTokens"}

\* the errors SemanticSearchService.search can reject with, by origin
SearchErrors == {"EmbeddingError", "VectorStoreError"}

NoCall == [op |-> "none", wasReady |-> FALSE, outcome |-> "none", called |-> {}]

NoQueryOutcome == [status |-> "none", error |-> "none", failedAt |-> "none", metadata |-> {}]

\* mutant: the store's guard looks at the connection only
StoreEnsureInitializedDbOnly == storeDb # "null"

\* VectorStore.ensureInitialized does not throw
StoreEnsureInitialized == ~(~storeInitialized \/ storeDb = "null")

\* SemanticSearchService.ensureInitialized does not throw
SearchEnsureInitialized == ~(~searchInitialized)

\* RAGPipeline.ensureInitialized does not throw
RagEnsureInitialized == ~(~ragInitialized)

PipelineInit ==
    /\ storeDb = "null"
    /\ storeInitialized = FALSE
    /\ storeInitPc = "idle"
    /\ storeClosePc = "idle"
    /\ searchInitialized = FALSE
    /\ searchInitPc = "idle"
    /\ ragInitialized = FALSE
    /\ ragInitPc = "idle"
    /\ queryPc = "idle"
    /\ stages = <<>>
    /\ queryOutcome = NoQueryOutcome
    /\ ready = {}
    /\ lastCall = NoCall

PipelineParked ==
    /\ storeDb = "null"
    /\ storeInitialized = FALSE
    /\ storeInitPc = "idle"
    /\ storeClosePc = "idle"
    /\ searchInitialized = FALSE
    /\ searchInitPc = "idle"
    /\ ragInitialized = FALSE
    /\ ragInitPc = "idle"
    /\ queryPc = "idle"
    /\ stages = <<>>
    /\ queryOutcome = NoQueryOutcome
    /\ ready = {}
    /\ lastCall = NoCall

\* VectorStore.initialize() up to its first await: the connection is created
VectorStoreInitialize ==
    /\ storeInitPc = "idle" /\ ~storeInitialized
    /\ storeDb' = "open"
    /\ storeInitPc' = "running"
    /\ UNCHANGED <<storeInitialized, storeClosePc, searchInitialized, searchInitPc,
                   ragInitialized, ragInitPc, queryPc, stages, queryOutcome, ready,
                   lastCall>>
    /\ UNCHANGED notPipeline

\* VectorStore.initialize() ends: an awaited call rejects, or the last one
\* resolves and isInitialized is set.  After a close() in between this.db is
\* null: the next this.db.exec throws, unless no statement was left
VectorStoreInitializeSettles ==
    /\ storeInitPc = "running"
    /\ \E outcome \in CallOutcomes :
          /\ storeInitialized' = IF outcome = "ok" THEN TRUE ELSE storeInitialized
          /\ ready' = IF outcome = "ok" THEN ready \cup {"store"} ELSE ready
    /\ storeInitPc' = "idle"
    /\ UNCHANGED <<storeDb, storeClosePc, searchInitialized, searchInitPc,
                   ragInitialized, ragInitPc, queryPc, stages, queryOutcome, lastCall>>
    /\ UNCHANGED notPipeline

\* VectorStore.close() up to the await of db.close()
VectorStoreClose ==
    /\ storeClosePc = "idle" /\ storeDb # "null"
    /\ storeClosePc' = "closing"
    /\ UNCHANGED <<storeDb, storeInitialized, storeInitPc, searchInitialized,
                   searchInitPc, ragInitialized, ragInitPc, queryPc, stages,
                   queryOutcome, ready, lastCall>>
    /\ UNCHANGED notPipeline

\* VectorStore.close() ends: db.close() rejects, or it resolves and the
\* connection and the flag are cleared
VectorStoreCloseSettles ==
    /\ storeClosePc = "closing"
    /\ \E outcome \in CallOutcomes :
          /\ storeDb' = IF outcome = "ok" THEN "null" ELSE storeDb
          /\ storeInitialized' = IF outcome = "ok" THEN FALSE ELSE storeInitialized
          /\ ready' = IF outcome = "ok" THEN ready \ {"store"} ELSE ready
    /\ storeClosePc' = "idle"
    /\ UNCHANGED <<storeInitPc, searchInitialized, searchInitPc, ragInitialized,
                   ragInitPc, queryPc, stages, queryOutcome, lastCall>>
    /\ UNCHANGED notPipeline

\* SemanticSearchService.initialize() up to its first await
SearchServiceInitialize ==
    /\ searchInitPc = "idle" /\ ~searchInitialized
    /\ searchInitPc' = "running"
    /\ UNCHANGED <<storeDb, storeInitialized, storeInitPc, storeClosePc,
                   searchInitialized, ragInitialized, ragInitPc, queryPc, stages,
                   queryOutcome, ready, lastCall>>
    /\ UNCHANGED notPipeline

\* SemanticSearchService.initialize() ends: an initialize() it awaits rejects,
\* or vectorStore.initialize() has resolved and isInitialized is set
SearchServiceInitializeSettles ==
    /\ searchInitPc = "running"
    /\ \E outcome \in CallOutcomes :
          /\ outcome = "ok" => storeInitialized
          /\ searchInitialized' = IF outcome = "ok" THEN TRUE ELSE searchInitialized
          /\ ready' = IF outcome = "ok" THEN ready \cup {"search"} ELSE ready
    /\ searchInitPc' = "idle"
    /\ UNCHANGED <<storeDb, storeInitialized, storeInitPc, storeClosePc,
                   ragInitialized, ragInitPc, queryPc, stages, queryOutcome, lastCall>>
    /\ UNCHANGED notPipeline

\* RAGPipeline.initialize() up to its first await
RagInitialize ==
    /\ ragInitPc = "idle" /\ ~ragInitialized
    /\ ragInitPc' = "running"
    /\ UNCHANGED <<storeDb, storeInitialized, storeInitPc, storeClosePc,
                   searchInitialized, searchInitPc, ragInitialized, queryPc, stages,
                   queryOutcome, ready, lastCall>>
    /\ UNCHANGED notPipeline

\* RAGPipeline.initialize() ends: an initialize() it awaits rejects, or
\* searchService.initialize() has resolved and isInitialized is set
RagInitializeSettles ==
    /\ ragInitPc = "running"
    /\ \E outcome \in CallOutcomes :
          /\ outcome = "ok" => searchInitialized
          /\ ragInitialized' = IF outcome = "ok" THEN TRUE ELSE ragInitialized
          /\ ready' = IF outcome = "ok" THEN ready \cup {"rag"} ELSE ready
    /\ ragInitPc' = "idle"
    /\ UNCHANGED <<storeDb, storeInitialized, storeInitPc, storeClosePc,
                   searchInitialized, searchInitPc, queryPc, stages, queryOutcome,
                   lastCall>>
    /\ UNCHANGED notPipeline

\* addChunk, addChunks, search, searchWithFilter, deleteDocument, count, clear:
\* ensureInitialized(), then the statement is sent to the database
VectorStoreOperation ==
    /\ IF StoreEnsureInitialized
       THEN \E outcome \in CallOutcomes :
               lastCall' = [op |-> "vectorStore", wasReady |-> "store" \in ready,
                            outcome |-> outcome, called |-> {"storage"}]
       ELSE lastCall' = [op |-> "vectorStore", wasReady |-> "store" \in ready,
                         outcome |-> "notInitialized", called |-> {}]
    /\ UNCHANGED <<storeDb, storeInitialized, storeInitPc, storeClosePc,
                   searchInitialized, searchInitPc, ragInitialized, ragInitPc,
                   queryPc, stages, queryOutcome, ready>>
    /\ UNCHANGED notPipeline

\* SemanticSearchService.search: ensureInitialized(), the query is embedded,
\* then the vector store is searched, which has its own guard
ServiceSearch ==
    /\ IF ~SearchEnsureInitialized
       THEN lastCall' = [op |-> "search", wasReady |-> "search" \in ready,
                         outcome |-> "notInitialized", called |-> {}]
       ELSE \/ lastCall' = [op |-> "search", wasReady |-> "search" \in ready,
                            outcome |-> "failed", called |-> {"embedding"}]
            \/ /\ ~StoreEnsureInitialized
               /\ lastCall' = [op |-> "search", wasReady |-> "search" \in ready,
                               outcome |-> "notInitialized", called |-> {"embedding"}]
            \/ /\ StoreEnsureInitialized
               /\ \E outcome \in CallOutcomes :
                     lastCall' = [op |-> "search", wasReady |-> "search" \in ready,
                                  outcome |-> outcome,
                                  called |-> {"embedding", "storage"}]
    /\ UNCHANGED <<storeDb, storeInitialized, storeInitPc, storeClosePc,
                   searchInitialized, searchInitPc, ragInitialized, ragInitPc,
                   queryPc, stages, queryOutcome, ready>>
    /\ UNCHANGED notPipeline

\* RAGPipeline.query up to the await of searchService.search
Query ==
    /\ queryPc \in {"idle", "done"}
    /\ IF ~RagEnsureInitialized
       THEN /\ lastCall' = [op |-> "query", wasReady |-> "rag" \in ready,
                            outcome |-> "notInitialized", called |-> {}]
            /\ stages' = <<>>
            /\ queryOutcome' = [status |-> "rejected", error |-> "NotInitialized",
                                failedAt |-> "guard", metadata |-> {}]
            /\ queryPc' = "done"
       ELSE /\ lastCall' = [op |-> "query", wasReady |-> "rag" \in ready,
                            outcome |-> "started", called |-> {"embedding"}]
            /\ stages' = <<"retrieve">>
            /\ queryOutcome' = NoQueryOutcome
            /\ queryPc' = "retrieving"
    /\ UNCHANGED <<storeDb, storeInitialized, storeInitPc, storeClosePc,
                   searchInitialized, searchInitPc, ragInitialized, ragInitPc, ready>>
    /\ UNCHANGED notPipeline

\* the search of the query settles: its rejection is the query's rejection;
\* on its result the context is truncated, the prompt is built and
\* llmProvider.generate is called
RetrieveSettles ==
    /\ queryPc = "retrieving"
    /\ \/ \E error \in SearchErrors :
             /\ queryOutcome' = [status |-> "rejected", error |-> error,
                                 failedAt |-> "retrieve", metadata |-> {}]
             /\ queryPc' = "done"
             /\ UNCHANGED stages
       \/ /\ StoreEnsureInitialized
          /\ stages' = stages \o <<"augment", "generate">>
          /\ queryPc' = "generating"
          /\ UNCHANGED queryOutcome
    /\ UNCHANGED <<storeDb, storeInitialized, storeInitPc, storeClosePc,
                   searchInitialized, searchInitPc, ragInitialized, ragInitPc, ready,
                   lastCall>>
    /\ UNCHANGED notPipeline

\* llmProvider.generate settles: its rejection is the query's rejection; on
\* its answer the response is returned with its metadata
GenerateSettles ==
    /\ queryPc = "generating"
    /\ \/ queryOutcome' = [status |-> "rejected", error |-> "GenerationError",
                            failedAt |-> "generate", metadata |-> {}]
       \/ queryOutcome' = [status |-> "resolved", error |-> "none",
                            failedAt |-> "none", metadata |-> ResponseMetadata]
    /\ queryPc' = "done"
    /\ UNCHANGED <<storeDb, storeInitialized, storeInitPc, storeClosePc,
                   searchInitialized, searchInitPc, ragInitialized, ragInitPc,
                   stages, ready, lastCall>>
    /\ UNCHANGED notPipeline

PipelineNext ==
    \/ VectorStoreInitialize
    \/ VectorStoreInitializeSettles
    \/ VectorStoreClose
    \/ VectorStoreCloseSettles
    \/ SearchServiceInitialize
    \/ SearchServiceInitializeSettles
    \/ RagInitialize
    \/ RagInitializeSettles
    \/ VectorStoreOperation
    \/ ServiceSearch
    \/ Query
    \/ RetrieveSettles
    \/ GenerateSettles

\* ------------------------------------------------------------------------
\* SemanticSearchService.getContextWindow (search-service.ts)
\* ------------------------------------------------------------------------
MaxWindowRows == 3
MaxWindowSize == 2

WindowDocumentIds == {"d1", "d2"}

\* the values of metadata.chunkIndex, and how they are written in a content
ChunkIndexDigits == <<"0", "1", "2", "3">>

\* a row of the documents table: its chunk_id is one per document and
\* chunkIndex, its content names the document and the index
WindowRows ==
    {[chunkId |-> <<d, k>>, documentId |-> d, chunkIndex |-> k,
      content |-> <<d, ChunkIndexDigits[k + 1]>>] :
        d \in WindowDocumentIds, k \in 0..(Len(ChunkIndexDigits) - 1)}

\* the tables of at most MaxWindowRows rows, chunk_id being unique
WindowTables ==
    UNION {{t \in [1..n -> WindowRows] : \A i, j \in 1..n : t[i] = t[j] => i = j} :
              n \in 0..MaxWindowRows}

\* SELECT ... WHERE document_id = $1 ORDER BY (metadata->>'chunkIndex')::int
ChunksOfDocument(table, documentId) ==
    LET selected == {table[k] : k \in {j \in 1..Len(table) :
                                          table[j].documentId = documentId}}
    IN CHOOSE s \in [1..Cardinality(selected) -> selected] :
           \A i, j \in 1..Cardinality(selected) :
               i < j => s[i].chunkIndex < s[j].chunkIndex

\* chunks.findIndex(c => c.chunk_id === document.chunkId), 0-based, -1 when absent
FindIndex(rows, chunkId) ==
    IF \E k \in 1..Len(rows) : rows[k].chunkId = chunkId
    THEN (CHOOSE k \in 1..Len(rows) :
              /\ rows[k].chunkId = chunkId
              /\ \A j \in 1..(k - 1) : rows[j].chunkId # chunkId) - 1
    ELSE -1

\* mutant: the start of the slice is not clamped at 0
BeforeWindowUnclamped(rows, currentIndex, size) ==
    Slice(rows, currentIndex - size, currentIndex)

\* chunks.slice(Math.max(0, currentIndex - windowSize), currentIndex)
BeforeWindow(rows, currentIndex, size) ==
    Slice(rows, Max(0, currentIndex - size), currentIndex)

\* chunks.slice(currentIndex + 1, currentIndex + 1 + windowSize)
AfterWindow(rows, currentIndex, size) ==
    Slice(rows, currentIndex + 1, currentIndex + 1 + size)

ContentsOf(rows) == [k \in 1..Len(rows) |-> rows[k].content]

getContextWindow(table, document, size) ==
    LET rows == ChunksOfDocument(table, document.documentId)
        currentIndex == FindIndex(rows, document.chunkId)
    IN IF currentIndex = -1
       THEN [before |-> <<>>, match |-> document, after |-> <<>>,
             combinedText |-> document.content]
       ELSE [before |-> BeforeWindow(rows, currentIndex, size),
             match |-> document,
             after |-> AfterWindow(rows, currentIndex, size),
             combinedText |->
                 Join(ContentsOf(BeforeWindow(rows, currentIndex, size))
                      \o <<document.content>>
                      \o ContentsOf(AfterWindow(rows, currentIndex, size)),
                      <<"\n", "\n">>)]

NoContextWindow == [before |-> <<>>, match |-> <<>>, after |-> <<>>, combinedText |-> <<>>]

\* the match is a chunk the search found: a row of the table, or a row that
\* was deleted since
WindowInit ==
    /\ windowTable \in WindowTables
    /\ windowMatch \in WindowRows
    /\ \/ \E k \in 1..Len(windowTable) : windowTable[k] = windowMatch
       \/ windowMatch = [chunkId |-> <<"d1", 0>>, documentId |-> "d1", chunkIndex |-> 0,
                         content |-> <<"d1", "0">>]
    /\ windowSize \in 0..MaxWindowSize
    /\ contextWindow = NoContextWindow
    /\ windowPc = "call"

WindowParked ==
    /\ windowTable = <<>>
    /\ windowMatch = [chunkId |-> <<"d1", 0>>, documentId |-> "d1", chunkIndex |-> 0,
                      content |-> <<"d1", "0">>]
    /\ windowSize = 0
    /\ contextWindow = NoContextWindow
    /\ windowPc = "done"

GetContextWindow ==
    /\ windowPc = "call"
    /\ contextWindow' = getContextWindow(windowTable, windowMatch, windowSize)
    /\ windowPc' = "done"
    /\ UNCHANGED <<windowTable, windowMatch, windowSize>>
    /\ UNCHANGED notWindow

WindowNext == GetContextWindow

\* ------------------------------------------------------------------------
\* VectorDatabase.getInstance (pglite.ts, 7-28), called by
\* IngestionService.ingest (ingestion.ts, 11) and SearchService.search
\* (search.ts, 13)
\* ------------------------------------------------------------------------
\* the calls of getInstance that may overlap
DbCallers == {1, 2, 3}

DatabaseInit ==
    /\ dbState = "null"
    /\ constructions = 0
    /\ getInstancePc = [c \in DbCallers |-> "idle"]
    /\ received = [c \in DbCallers |-> "none"]

DatabaseParked ==
    /\ dbState = "null"
    /\ constructions = 0
    /\ getInstancePc = [c \in DbCallers |-> "returned"]
    /\ received = [c \in DbCallers |-> "none"]

\* getInstance up to its first await: an instance that is set is returned at
\* once, otherwise the instance is constructed and assigned before waitReady
GetInstance(c) ==
    /\ getInstancePc[c] = "idle"
    /\ IF dbState # "null"
       THEN /\ getInstancePc' = [getInstancePc EXCEPT ![c] = "returned"]
            /\ received' = [received EXCEPT ![c] = dbState]
            /\ UNCHANGED <<dbState, constructions>>
       ELSE /\ dbState' = "constructed"
            /\ constructions' = constructions + 1
            /\ getInstancePc' = [getInstancePc EXCEPT ![c] = "waitReady"]
            /\ UNCHANGED received
    /\ UNCHANGED notDatabase

\* await this.instance.waitReady
WaitReadyResolves(c) ==
    /\ getInstancePc[c] = "waitReady"
    /\ dbState' = "ready"
    /\ getInstancePc' = [getInstancePc EXCEPT ![c] = "extension"]
    /\ UNCHANGED <<constructions, received>>
    /\ UNCHANGED notDatabase

\* await this.instance.exec('CREATE EXTENSION IF NOT EXISTS vector')
CreateExtensionResolves(c) ==
    /\ getInstancePc[c] = "extension"
    /\ dbState' = "extension"
    /\ getInstancePc' = [getInstancePc EXCEPT ![c] = "table"]
    /\ UNCHANGED <<constructions, received>>
    /\ UNCHANGED notDatabase

\* await this.instance.exec('CREATE TABLE IF NOT EXISTS documents ...'), return
CreateTableResolves(c) ==
    /\ getInstancePc[c] = "table"
    /\ dbState' = "table"
    /\ getInstancePc' = [getInstancePc EXCEPT ![c] = "returned"]
    /\ received' = [received EXCEPT ![c] = "table"]
    /\ UNCHANGED constructions
    /\ UNCHANGED notDatabase

DatabaseNext ==
    \/ \E c \in DbCallers : GetInstance(c)
    \/ \E c \in DbCallers : WaitReadyResolves(c)
    \/ \E c \in DbCallers : CreateExtensionResolves(c)
    \/ \E c \in DbCallers : CreateTableResolves(c)

\* ------------------------------------------------------------------------
\* EmbeddingService.initialize / doInitialize / embed (embeddings.ts)
\* ------------------------------------------------------------------------
\* the callers of the one EmbeddingService
ServiceCallers == {1, 2, 3}

NoInitialize == [promiseBefore |-> "none", startedLoad |-> FALSE]

EmbeddingInit ==
    /\ initializationPromise = "null"
    /\ embeddingInitialized = FALSE
    /\ modelLoads = 0
    /\ initializePc = [c \in ServiceCallers |-> "idle"]
    /\ lastInitialize = NoInitialize

EmbeddingParked ==
    /\ initializationPromise = "null"
    /\ embeddingInitialized = FALSE
    /\ modelLoads = 0
    /\ initializePc = [c \in ServiceCallers |-> "awaiting"]
    /\ lastInitialize = NoInitialize

\* what a caller that awaits the promise is left with
AwaitOutcome(promise) ==
    IF promise = "fulfilled" THEN "resolved" ELSE IF promise = "rejected" THEN "rejected" ELSE "awaiting"

\* initialize(): a promise that is set is returned, whatever its state;
\* otherwise, unless isInitialized, doInitialize is called and awaited
Initialize(c) ==
    /\ initializePc[c] # "awaiting"
    /\ IF initializationPromise # "null"
       THEN /\ initializePc' = [initializePc EXCEPT ![c] = AwaitOutcome(initializationPromise)]
            /\ lastInitialize' = [promiseBefore |-> initializationPromise, startedLoad |-> FALSE]
            /\ UNCHANGED <<initializationPromise, modelLoads>>
       ELSE IF embeddingInitialized
       THEN /\ initializePc' = [initializePc EXCEPT ![c] = "resolved"]
            /\ lastInitialize' = [promiseBefore |-> initializationPromise, startedLoad |-> FALSE]
            /\ UNCHANGED <<initializationPromise, modelLoads>>
       ELSE /\ initializationPromise' = "pending"
            /\ modelLoads' = modelLoads + 1
            /\ initializePc' = [initializePc EXCEPT ![c] = "awaiting"]
            /\ lastInitialize' = [promiseBefore |-> initializationPromise, startedLoad |-> TRUE]
    /\ UNCHANGED embeddingInitialized
    /\ UNCHANGED notEmbedding

\* doInitialize: pipeline(...) resolves, isInitialized is set; or it rejects
\* and doInitialize throws.  Every caller that awaits the promise settles
DoInitializeSettles ==
    /\ initializationPromise = "pending"
    /\ \E outcome \in CallOutcomes :
          /\ initializationPromise' = IF outcome = "ok" THEN "fulfilled" ELSE "rejected"
          /\ embeddingInitialized' = IF outcome = "ok" THEN TRUE ELSE embeddingInitialized
          /\ initializePc' = [c \in ServiceCallers |->
                                IF initializePc[c] = "awaiting"
                                THEN IF outcome = "ok" THEN "resolved" ELSE "rejected"
                                ELSE initializePc[c]]
    /\ UNCHANGED <<modelLoads, lastInitialize>>
    /\ UNCHANGED notEmbedding

\* embed(text): throws unless the service is initialized
ServiceEmbed(c) ==
    /\ initializePc[c] # "awaiting"
    /\ initializePc' = [initializePc EXCEPT ![c] = IF embeddingInitialized THEN "embedded" ELSE "threw"]
    /\ UNCHANGED <<initializationPromise, embeddingInitialized, modelLoads, lastInitialize>>
    /\ UNCHANGED notEmbedding

EmbeddingNext ==
    \/ \E c \in ServiceCallers : Initialize(c)
    \/ DoInitializeSettles
    \/ \E c \in ServiceCallers : ServiceEmbed(c)

\* ------------------------------------------------------------------------
\* createLazyModule / getLazyModule (08-optimization.md, 365-396)
\* ------------------------------------------------------------------------
\* the callers of getLazyModule on the same module
LazyCallers == {1, 2, 3}

LazyInit ==
    /\ moduleInstance = "null"
    /\ moduleLoading = FALSE
    /\ lazyPc = [c \in LazyCallers |-> "idle"]
    /\ lazyResult = [c \in LazyCallers |-> "none"]

LazyParked ==
    /\ moduleInstance = "null"
    /\ moduleLoading = FALSE
    /\ lazyPc = [c \in LazyCallers |-> "loading"]
    /\ lazyResult = [c \in LazyCallers |-> "none"]

\* what `return module.instance` gives
InstanceValue == IF moduleInstance = "loaded" THEN "instance" ELSE "null"

\* getLazyModule up to its first await: return the instance, wait for the
\* load in progress, or set loading and call load()
GetLazyModule(c) ==
    /\ lazyPc[c] \in {"idle", "returned", "threw"}
    /\ IF moduleInstance # "null"
       THEN /\ lazyPc' = [lazyPc EXCEPT ![c] = "returned"]
            /\ lazyResult' = [lazyResult EXCEPT ![c] = InstanceValue]
            /\ UNCHANGED moduleLoading
       ELSE IF moduleLoading
       THEN /\ lazyPc' = [lazyPc EXCEPT ![c] = "waiting"]
            /\ lazyResult' = [lazyResult EXCEPT ![c] = "none"]
            /\ UNCHANGED moduleLoading
       ELSE /\ moduleLoading' = TRUE
            /\ lazyPc' = [lazyPc EXCEPT ![c] = "loading"]
            /\ lazyResult' = [lazyResult EXCEPT ![c] = "none"]
    /\ UNCHANGED moduleInstance
    /\ UNCHANGED notLazy

\* module.load() resolves: the instance is set and returned; or it rejects
\* and the call throws.  finally clears loading in both cases
LoadSettles(c) ==
    /\ lazyPc[c] = "loading"
    /\ \E outcome \in CallOutcomes :
          /\ moduleInstance' = IF outcome = "ok" THEN "loaded" ELSE moduleInstance
          /\ lazyPc' = [lazyPc EXCEPT ![c] = IF outcome = "ok" THEN "returned" ELSE "threw"]
          /\ lazyResult' = [lazyResult EXCEPT ![c] = IF outcome = "ok" THEN "instance" ELSE "error"]
    /\ moduleLoading' = FALSE
    /\ UNCHANGED notLazy

\* the 50 ms timer of a waiting caller fires while loading is false: the loop
\* ends and module.instance! is returned (while loading is true it sleeps again)
WaitEnds(c) ==
    /\ lazyPc[c] = "waiting"
    /\ ~moduleLoading
    /\ lazyPc' = [lazyPc EXCEPT ![c] = "returned"]
    /\ lazyResult' = [lazyResult EXCEPT ![c] = InstanceValue]
    /\ UNCHANGED <<moduleInstance, moduleLoading>>
    /\ UNCHANGED notLazy

LazyNext ==
    \/ \E c \in LazyCallers : GetLazyModule(c)
    \/ \E c \in LazyCallers : LoadSettles(c)
    \/ \E c \in LazyCallers : WaitEnds(c)

\* ------------------------------------------------------------------------
\* Specifications
\* ------------------------------------------------------------------------
InitDedup ==
    /\ DedupInit
    /\ PoolParked
    /\ CacheParked
    /\ CachedParked
    /\ ChunkParked
    /\ TunerParked
    /\ SearchParked
    /\ DiversifyParked
    /\ StoreParked
    /\ SandboxParked
    /\ PipelineParked
    /\ WindowParked
    /\ DatabaseParked
    /\ EmbeddingParked
    /\ LazyParked

SpecDedup == InitDedup /\ [][DedupNext]_vars

InitPool ==
    /\ PoolInit
    /\ DedupInit
    /\ CacheParked
    /\ CachedParked
    /\ ChunkParked
    /\ TunerParked
    /\ SearchParked
    /\ DiversifyParked
    /\ StoreParked
    /\ SandboxParked
    /\ PipelineParked
    /\ WindowParked
    /\ DatabaseParked
    /\ EmbeddingParked
    /\ LazyParked

SpecPool == InitPool /\ [][PoolNext]_vars

InitCache ==
    /\ CacheInit
    /\ DedupInit
    /\ PoolParked
    /\ CachedParked
    /\ ChunkParked
    /\ TunerParked
    /\ SearchParked
    /\ DiversifyParked
    /\ StoreParked
    /\ SandboxParked
    /\ PipelineParked
    /\ WindowParked
    /\ DatabaseParked
    /\ EmbeddingParked
    /\ LazyParked

SpecCache == InitCache /\ [][CacheNext]_vars

InitCached ==
    /\ CacheInit
    /\ DedupInit
    /\ PoolParked
    /\ CachedParked
    /\ ChunkParked
    /\ TunerParked
    /\ SearchParked
    /\ DiversifyParked
    /\ StoreParked
    /\ SandboxParked
    /\ PipelineParked
    /\ WindowParked
    /\ DatabaseParked
    /\ EmbeddingParked
    /\ LazyParked

SpecCached == InitCached /\ [][CachedNext]_vars

InitChunk ==
    /\ ChunkInit
    /\ DedupInit
    /\ PoolParked
    /\ CacheParked
    /\ CachedParked
    /\ TunerParked
    /\ SearchParked
    /\ DiversifyParked
    /\ StoreParked
    /\ SandboxParked
    /\ PipelineParked
    /\ WindowParked
    /\ DatabaseParked
    /\ EmbeddingParked
    /\ LazyParked

SpecChunk == InitChunk /\ [][ChunkNext]_vars

InitTuner ==
    /\ TunerInit
    /\ DedupInit
    /\ PoolParked
    /\ CacheParked
    /\ CachedParked
    /\ ChunkParked
    /\ SearchParked
    /\ DiversifyParked
    /\ StoreParked
    /\ SandboxParked
    /\ PipelineParked
    /\ WindowParked
    /\ DatabaseParked
    /\ EmbeddingParked
    /\ LazyParked

SpecTuner == InitTuner /\ [][TunerNext]_vars

InitSearch ==
    /\ SearchInit
    /\ DedupInit
    /\ PoolParked
    /\ CacheParked
    /\ CachedParked
    /\ ChunkParked
    /\ TunerParked
    /\ DiversifyParked
    /\ StoreParked
    /\ SandboxParked
    /\ PipelineParked
    /\ WindowParked
    /\ DatabaseParked
    /\ EmbeddingParked
    /\ LazyParked

SpecSearch == InitSearch /\ [][SearchNext]_vars

InitRag ==
    /\ RagInit
    /\ DedupInit
    /\ PoolParked
    /\ CacheParked
    /\ CachedParked
    /\ ChunkParked
    /\ TunerParked
    /\ DiversifyParked
    /\ StoreParked
    /\ SandboxParked
    /\ PipelineParked
    /\ WindowParked
    /\ DatabaseParked
    /\ EmbeddingParked
    /\ LazyParked

SpecRag == InitRag /\ [][RagNext]_vars

InitDiversify ==
    /\ DiversifyInit
    /\ DedupInit
    /\ PoolParked
    /\ CacheParked
    /\ CachedParked
    /\ ChunkParked
    /\ TunerParked
    /\ SearchParked
    /\ StoreParked
    /\ SandboxParked
    /\ PipelineParked
    /\ WindowParked
    /\ DatabaseParked
    /\ EmbeddingParked
    /\ LazyParked

SpecDiversify == InitDiversify /\ [][DiversifyNext]_vars

InitStore ==
    /\ StoreInit
    /\ DedupInit
    /\ PoolParked
    /\ CacheParked
    /\ CachedParked
    /\ ChunkParked
    /\ TunerParked
    /\ SearchParked
    /\ DiversifyParked
    /\ SandboxParked
    /\ PipelineParked
    /\ WindowParked
    /\ DatabaseParked
    /\ EmbeddingParked
    /\ LazyParked

SpecStore == InitStore /\ [][StoreNext]_vars

InitSandbox ==
    /\ SandboxInit
    /\ DedupInit
    /\ PoolParked
    /\ CacheParked
    /\ CachedParked
    /\ ChunkParked
    /\ TunerParked
    /\ SearchParked
    /\ DiversifyParked
    /\ StoreParked
    /\ PipelineParked
    /\ WindowParked
    /\ DatabaseParked
    /\ EmbeddingParked
    /\ LazyParked

SpecSandbox == InitSandbox /\ [][SandboxNext]_vars

InitPipeline ==
    /\ PipelineInit
    /\ DedupInit
    /\ PoolParked
    /\ CacheParked
    /\ CachedParked
    /\ ChunkParked
    /\ TunerParked
    /\ SearchParked
    /\ DiversifyParked
    /\ StoreParked
    /\ SandboxParked
    /\ WindowParked
    /\ DatabaseParked
    /\ EmbeddingParked
    /\ LazyParked

SpecPipeline == InitPipeline /\ [][PipelineNext]_vars

InitWindow ==
    /\ WindowInit
    /\ DedupInit
    /\ PoolParked
    /\ CacheParked
    /\ CachedParked
    /\ ChunkParked
    /\ TunerParked
    /\ SearchParked
    /\ DiversifyParked
    /\ StoreParked
    /\ SandboxParked
    /\ PipelineParked
    /\ DatabaseParked
    /\ EmbeddingParked
    /\ LazyParked

SpecWindow == InitWindow /\ [][WindowNext]_vars

InitDatabase ==
    /\ DatabaseInit
    /\ DedupInit
    /\ PoolParked
    /\ CacheParked
    /\ CachedParked
    /\ ChunkParked
    /\ TunerParked
    /\ SearchParked
    /\ DiversifyParked
    /\ StoreParked
    /\ SandboxParked
    /\ PipelineParked
    /\ WindowParked
    /\ EmbeddingParked
    /\ LazyParked

SpecDatabase == InitDatabase /\ [][DatabaseNext]_vars

InitEmbedding ==
    /\ EmbeddingInit
    /\ DedupInit
    /\ PoolParked
    /\ CacheParked
    /\ CachedParked
    /\ ChunkParked
    /\ TunerParked
    /\ SearchParked
    /\ DiversifyParked
    /\ StoreParked
    /\ SandboxParked
    /\ PipelineParked
    /\ WindowParked
    /\ DatabaseParked
    /\ LazyParked

SpecEmbedding == InitEmbedding /\ [][EmbeddingNext]_vars

InitLazy ==
    /\ LazyInit
    /\ DedupInit
    /\ PoolParked
    /\ CacheParked
    /\ CachedParked
    /\ ChunkParked
    /\ TunerParked
    /\ SearchParked
    /\ DiversifyParked
    /\ StoreParked
    /\ SandboxParked
    /\ PipelineParked
    /\ WindowParked
    /\ DatabaseParked
    /\ EmbeddingParked

SpecLazy == InitLazy /\ [][LazyNext]_vars

\* ------------------------------------------------------------------------
\* Claims on the RequestDeduplicator
\* ------------------------------------------------------------------------

\* C1: at most one underlying embedding computation per distinct text is in
\* flight at any time, and a call issued while the computation for its text
\* is in flight starts no further computation: it is attached to that one.
C1_AtMostOneInFlight ==
    /\ \A t \in DedupTexts : Cardinality(PendingFor(t)) <= 1
    /\ \A c \in 1..Len(calls) : calls[c].during # 0 => calls[c].chain = calls[c].during

C1_Witness ==
    \E c, d \in 1..Len(calls) :
        /\ c < d /\ d < Len(calls)
        /\ calls[c].text = calls[d].text
        /\ calls[Len(calls)].text = calls[c].text
        /\ calls[d].during = calls[c].chain
        /\ calls[Len(calls)].during = calls[c].chain
        /\ Cardinality({k \in CompIds : comps[k].text = calls[c].text}) = 1

\* C2: a caller that asked while the computation for its text was in flight
\* receives exactly the outcome of that computation, the one its starter
\* receives: the same vector on success, the same error on failure.
C2_SameOutcome ==
    \A c, d \in 1..Len(calls) :
        (/\ calls[d].during # 0
         /\ calls[c].chain = calls[d].during
         /\ calls[c].delivered /\ calls[d].delivered)
        => (calls[d].got = calls[c].got /\ calls[d].got = comps[calls[d].during].outcome)

C2_Witness ==
    \E c, d \in 1..Len(calls) :
        /\ c < d
        /\ calls[d].during = calls[c].chain
        /\ calls[c].delivered /\ calls[d].delivered
        /\ ~calls[d].got.ok /\ calls[d].got.v = "errB"

\* C3: once the stored promise of a computation has settled (by success or by
\* failure) its in-flight record is gone, pendingCount counts exactly the
\* computations not yet settled, and a call issued afterwards is never
\* attached to the settled computation: it starts a fresh one.
C3_RecordRemovedOnSettle ==
    /\ \A k \in SettledComps : inFlightRequests[comps[k].text] # k
    /\ pendingCount = Cardinality(CompIds \ SettledComps)
    /\ \A c \in 1..Len(calls) : calls[c].chain \notin calls[c].settledAtIssue

C3_Witness ==
    \E c \in 1..Len(calls) :
        \E k \in calls[c].settledAtIssue :
            /\ comps[k].text = calls[c].text
            /\ ~comps[k].outcome.ok
            /\ calls[c].chain > k
            /\ calls[c].delivered /\ calls[c].got.ok
            /\ pendingCount = 0

\* ------------------------------------------------------------------------
\* Claims on processBatches / processWithConcurrency
\* ------------------------------------------------------------------------

\* C4: at no point are more than `concurrency` processor calls in flight.
C4_BoundedInFlight == Cardinality(InFlight) <= batchConfig.concurrency

\* C30: processBatches returns exactly one result per input item and
\* results[i] is the result of items[i], whatever the order in which the
\* processor calls complete.
C30_ResultsInItemOrder ==
    poolPc = "done" => results = [n \in 1..items |-> n]

\* C5: for concurrent calls of CachedEmbeddingService.embed on the same
\* uncached text the underlying embedding is computed at most once: at most
\* one super.embed call per text is in flight.
C5_SingleOwner == \A t \in CacheTexts : Cardinality(AwaitingSuper(t)) <= 1

\* ------------------------------------------------------------------------
\* Claims on the EmbeddingCache
\* ------------------------------------------------------------------------

\* C8: after set(t, v), as long as t is not evicted for capacity (nor set
\* again, nor the cache cleared), get(t) returns v at every time up to ttlMs
\* after the set and null at every later time.
C8_SetThenGet ==
    \A t \in CacheTexts :
        lastSet[t].set
        => GetResult(t) = (IF now - lastSet[t].at <= ttlMs THEN lastSet[t].v ELSE "null")

\* C9: the entry a set on a full cache evicts is the least recently used one,
\* a key's last use being its most recent successful get or its most recent set.
C9_EvictsLeastRecentlyUsed ==
    \A t \in CacheTexts :
        EvictedBySet(t) # NoKey => EvictedBySet(t) = Head(recency)

\* C10: with maxSize >= 1 the number of stored entries never exceeds maxSize.
C10_SizeBounded == maxSize >= 1 => Len(cache) <= maxSize

C10_Witness ==
    /\ maxSize = 2
    /\ Len(cache) = maxSize
    /\ lastOp = "set, evicting another key"

\* C37: set for a key that is already cached only replaces that key's entry:
\* every other key of the cache is still cached after it, whatever the fill
\* level.
C37_UpdateKeepsOtherKeys ==
    \A t \in CacheTexts, e \in Embeddings :
        IndexOfKey(cache, generateKey(t)) # 0
        => \A i \in 1..Len(cache) :
              IndexOfKey(CacheAfterSet(t, e), cache[i].key) # 0

\* ------------------------------------------------------------------------
\* Claims on fixed-size chunking
\* ------------------------------------------------------------------------
\* the characters of the text a chunk list covers (1-based positions)
Covered ==
    UNION {(chunks[k].startIndex + 1)..(chunks[k].startIndex + Len(chunks[k].content)) :
              k \in 1..Len(chunks)}

\* C6: fixed-size chunking terminates for every text and every configuration
\* with chunkSize > 0, also with chunkOverlap >= chunkSize.  The loop is a
\* function of the start index alone, so it terminates exactly when every
\* iteration that leaves it running has moved the start index forward: an
\* iteration that returns to the same start index repeats for ever, and one
\* that moves it back is followed only by iterations that do the same.
C6_EveryIterationAdvances ==
    [][(chunkPc = "loop" /\ iterations' = iterations + 1) => startIndex' > startIndex]_vars

\* C7: for 0 <= overlap < size, chunkText and the step-05 fixedSizeChunk give
\* chunk k (from 0) the start k * (size - overlap) and the characters from
\* there to min(start + size, length), so starts increase strictly; the
\* returned chunks cover every character of the text; and "ABCDEFGHIJ" with
\* size 4 and overlap 1 yields "ABCD", "DEFG", "GHIJ", "J" at 0, 3, 6, 9.
C7_StartsAndCoverage ==
    (chunker \in {"chunkText", "step05"} /\ chunkConfig.chunkOverlap < chunkConfig.chunkSize)
    => /\ \A k \in 1..Len(chunks) :
            /\ chunks[k].startIndex = (k - 1) * (chunkConfig.chunkSize - chunkConfig.chunkOverlap)
            /\ chunks[k].content =
                  SubSeq(srcText, chunks[k].startIndex + 1,
                         Min(chunks[k].startIndex + chunkConfig.chunkSize, Len(srcText)))
            /\ k > 1 => chunks[k].startIndex > chunks[k - 1].startIndex
       /\ chunkPc = "done" => Covered = 1..Len(srcText)
       /\ (chunkPc = "done" /\ srcText = ExampleText
                /\ chunkConfig.chunkSize = 4 /\ chunkConfig.chunkOverlap = 1)
           => /\ [k \in 1..Len(chunks) |-> chunks[k].content]
                   = << <<"A", "B", "C", "D">>, <<"D", "E", "F", "G">>,
                        <<"G", "H", "I", "J">>, <<"J">> >>
              /\ [k \in 1..Len(chunks) |-> chunks[k].startIndex] = <<0, 3, 6, 9>>

C7_Witness ==
    /\ chunker = "chunkText"
    /\ chunkPc = "done"
    /\ srcText = ExampleText
    /\ chunkConfig.chunkSize = 4 /\ chunkConfig.chunkOverlap = 1
    /\ Len(chunks) = 4

\* the chunkers that return TextChunk records with positions and metadata
ReturnedTextChunks == chunker \in {"readme", "recursive"} /\ chunkPc = "done"

\* C26: every TextChunk returned by fixedSizeChunk and by recursiveChunk has
\* 0 <= startIndex < endIndex <= length of the text, for every text and
\* every configuration.
C26_ChunkBounds ==
    ReturnedTextChunks
    => \A k \in 1..Len(chunks) :
          /\ 0 <= chunks[k].startIndex
          /\ chunks[k].startIndex < chunks[k].endIndex
          /\ chunks[k].endIndex <= Len(srcText)

\* C27: a returned chunk list carries chunkIndex 0..n-1 in array order and
\* totalChunks = n on every chunk, also when pieces shorter than
\* minChunkSize were dropped.
C27_IndexAndTotal ==
    ReturnedTextChunks
    => \A k \in 1..Len(chunks) :
          /\ chunks[k].chunkIndex = k - 1
          /\ chunks[k].totalChunks = Len(chunks)

\* recursiveChunk returned chunks after dropping the first raw piece
C27_Witness ==
    /\ chunker = "recursive" /\ chunkPc = "done"
    /\ Len(chunks) >= 1
    /\ Len(Trim(recursiveSplit(srcText, DefaultSeparators, chunkConfig.chunkSize,
                               chunkConfig.chunkOverlap)[1])) < chunkConfig.minChunkSize

\* a configuration the chunkers cannot work with: no positive chunk size, or
\* an overlap that leaves an unguarded fixed-size loop no forward step
InvalidChunkConfig ==
    \/ chunkConfig.chunkSize <= 0
    \/ /\ chunker \in {"chunkText", "step05"}
       /\ chunkConfig.chunkOverlap >= chunkConfig.chunkSize

\* C28: chunking with an invalid configuration fails with an error: it runs
\* no iteration, produces no chunk and does not return a chunk list.
C28_InvalidConfigRejected ==
    InvalidChunkConfig => (iterations = 0 /\ chunks = <<>> /\ chunkPc # "done")

\* C38: boundary snapping only moves the end of a chunk backward within the
\* last 20% of the window: every chunk of fixedSizeChunk that does not end
\* at the end of the text has
\* startIndex + 0.8 * chunkSize < endIndex <= startIndex + chunkSize
\* (checked for chunkSize >= 1 and chunkOverlap < chunkSize, in fifths).
C38_SnappedEndInWindow ==
    (chunker = "readme" /\ chunkConfig.chunkSize >= 1
        /\ chunkConfig.chunkOverlap < chunkConfig.chunkSize)
    => \A k \in 1..Len(chunks) :
          chunks[k].endIndex # Len(srcText)
          => /\ 5 * chunks[k].startIndex + 4 * chunkConfig.chunkSize < 5 * chunks[k].endIndex
             /\ chunks[k].endIndex <= chunks[k].startIndex + chunkConfig.chunkSize

\* the raw pieces recursiveSplit gives for the text and configuration
RawPieces ==
    recursiveSplit(srcText, DefaultSeparators, chunkConfig.chunkSize,
                   chunkConfig.chunkOverlap)

\* C39: for chunkOverlap < chunkSize recursive splitting terminates and every
\* piece it returns has length <= chunkSize, a piece that is too long being
\* split again.
C39_PiecesWithinChunkSize ==
    chunkConfig.chunkOverlap < chunkConfig.chunkSize
    => /\ chunker = "recursive"
          => \A k \in 1..Len(RawPieces) :
                /\ RawPieces[k] # NeverReturns
                /\ Len(RawPieces[k]) <= chunkConfig.chunkSize
       /\ (chunker = "recursive05" /\ chunkPc = "done")
          => \A k \in 1..Len(chunks) : Len(chunks[k].content) <= chunkConfig.chunkSize

\* ------------------------------------------------------------------------
\* Claims on the index tuner and on VectorStore.createIndex
\* ------------------------------------------------------------------------
\* the configuration just recommended is the one for the current row count
Recommended == tunerOp \in {"recommendConfig", "optimize"}

IsCeilSqrt(k, n) == k * k >= n /\ (k - 1) * (k - 1) < n

C18_ReapplyIsNoOp ==
    (tunerOp = "optimize" /\ indexBefore # NoIndex
        /\ indexBefore = OptimizeIndex(recommendation)) =>
        /\ ddl = <<>>
        /\ embeddingIndex = indexBefore

\* the index type the operation just performed was asked to establish
RequestedType ==
    IF tunerOp = "optimize" THEN recommendation.indexType ELSE storeConfig.indexType

\* the configuration was applied: optimize always applies its recommendation,
\* initialize calls createIndex for every index type but 'none'
Applied ==
    \/ tunerOp = "optimize"
    \/ tunerOp = "initialize" /\ storeConfig.indexType # "none"

\* C19: applying a configuration whose type differs from the existing
\* embedding index drops the old index first; afterwards the embedding index
\* has the requested type, and there is none when the requested type is 'none'.
C19_SwitchDropsOldFirst ==
    (Applied /\ indexBefore # NoIndex /\ indexBefore.method # RequestedType) =>
        /\ ddl # <<>>
        /\ ddl[1] = "DROP"
        /\ embeddingIndex.method = IF RequestedType = "none" THEN "absent" ELSE RequestedType

\* ------------------------------------------------------------------------
\* Claims on search and on the RAG pipeline
\* ------------------------------------------------------------------------
\* the ids of the results of the last search, in rank order
ResultIds == [k \in 1..Len(response.results) |-> response.results[k].id]

\* t is ceil(chars / 4)
IsTokenEstimate(t, chars) == 4 * t >= chars /\ 4 * (t - 1) < chars

TokensOf(id) == CHOOSE t \in 0..searchRows[id].chars : IsTokenEstimate(t, searchRows[id].chars)

RECURSIVE TokensOfPrefix(_)
TokensOfPrefix(k) == IF k = 0 THEN 0 ELSE TokensOfPrefix(k - 1) + TokensOf(ResultIds[k])

Truncated == searchOp \in {"searchForContext", "query"}

\* C12: the chunks kept by a token-budget truncation are exactly the longest
\* prefix of the ranked results whose estimated tokens (ceil(chars / 4) per
\* chunk) sum to at most maxTokens: the first chunk that would exceed the
\* budget ends the iteration and no later, smaller chunk is added.
C12_LongestPrefixInBudget ==
    Truncated =>
        /\ Len(contextChunks) <= Len(ResultIds)
        /\ contextChunks = SubSeq(ResultIds, 1, Len(contextChunks))
        /\ TokensOfPrefix(Len(contextChunks)) <= contextBudget
        /\ Len(contextChunks) < Len(ResultIds) =>
               TokensOfPrefix(Len(contextChunks) + 1) > contextBudget

\* sizes [5, 4, 3] with budget 10 keep the first two, although the third
\* would still fit after the first
C12_Witness ==
    /\ searchOp = "query"
    /\ contextBudget = 10
    /\ Len(ResultIds) = 3
    /\ TokensOf(ResultIds[1]) = 5 /\ TokensOf(ResultIds[2]) = 4 /\ TokensOf(ResultIds[3]) = 3
    /\ contextChunks = SubSeq(ResultIds, 1, 2)

\* C13: RAGPipeline.query never puts more than maxContextChunks chunks into
\* the prompt: chunksUsed and the number of sources are at most that option.
C13_AtMostMaxContextChunks ==
    searchOp = "query" =>
        /\ ragResponse.chunksUsed <= ragQuery.maxContextChunks
        /\ Len(ragResponse.sources) <= ragQuery.maxContextChunks

\* the stored chunks that match the last search: similarity at least the
\* threshold, and the filters satisfied when there are filters
Matching ==
    {i \in DOMAIN searchRows :
        /\ searchRows[i].sim >= searchQuery.threshold
        /\ searchQuery.filtered => searchRows[i].matches}

\* C14: a search returns at most `limit` results, each a stored chunk with
\* its score at least the threshold, in non-increasing score order and
\* ranked 1..k in that order; when no chunk clears the threshold the result
\* list is empty.
C14_RankedResults ==
    searchOp = "search" =>
        /\ Len(response.results) <= searchQuery.limit
        /\ \A k \in 1..Len(response.results) :
            /\ response.results[k].id \in DOMAIN searchRows
            /\ response.results[k].score = searchRows[response.results[k].id].sim
            /\ response.results[k].score >= searchQuery.threshold
            /\ response.results[k].rank = k
        /\ \A k \in 1..(Len(response.results) - 1) :
            response.results[k].score >= response.results[k + 1].score
        /\ Matching = {} => response.results = <<>>

C14_Witness ==
    /\ searchOp = "search"
    /\ searchQuery.filtered
    /\ searchQuery.limit = 2
    /\ Len(response.results) = 2
    /\ response.results[1].score > response.results[2].score
    /\ response.results[2].score = searchQuery.threshold
    /\ \E i \in DOMAIN searchRows :
        searchRows[i].matches /\ searchRows[i].sim < searchQuery.threshold

\* C15: totalMatches is the number of stored chunks whose similarity is at
\* least the threshold (and that satisfy the filters), whatever the limit.
C15_TotalMatchesBeforeLimit ==
    searchOp = "search" => response.totalMatches = Cardinality(Matching)

\* ------------------------------------------------------------------------
\* Claims on diversifyResults
\* ------------------------------------------------------------------------
\* the results of the same document ranked before item k
EarlierOfDocument(k) ==
    {j \in 1..(k - 1) : candidates[j].documentId = candidates[k].documentId}

\* the positions of the input that are among the first maxPerDocument of
\* their document
FirstOfDocument ==
    {k \in 1..Len(candidates) : Cardinality(EarlierOfDocument(k)) < maxPerDocument}

\* C20: the output of diversifyResults is the subsequence of the input that
\* keeps, for each documentId, exactly its first min(count, maxPerDocument)
\* results, in the order of the input.
C20_FirstPerDocumentInOrder ==
    diversifyPc = "done" =>
        /\ Len(diversified) = Cardinality(FirstOfDocument)
        /\ \A i \in 1..Len(diversified) :
            /\ diversified[i].rank \in FirstOfDocument
            /\ diversified[i] = candidates[diversified[i].rank]
        /\ \A i \in 1..(Len(diversified) - 1) : diversified[i].rank < diversified[i + 1].rank
        /\ \A d \in DocumentIds :
            Cardinality({i \in 1..Len(diversified) : diversified[i].documentId = d})
                = Min(Cardinality({k \in 1..Len(candidates) : candidates[k].documentId = d}),
                      maxPerDocument)

\* five candidates of one document with maxPerDocument = 2 leave the first two
C20_Witness ==
    /\ diversifyPc = "done"
    /\ Len(candidates) = 5
    /\ \A k \in 1..5 : candidates[k].documentId = "doc1"
    /\ maxPerDocument = 2
    /\ diversified = SubSeq(candidates, 1, 2)

\* ------------------------------------------------------------------------
\* Claims on storing chunks
\* ------------------------------------------------------------------------
\* the rows of document d, as a set
RowsOfDocument(d) == {documents[i] : i \in {j \in 1..Len(documents) : documents[j].document_id = d}}

\* the rows the chunks of content c of document d make
RowsOfContent(d, c) == {RowOf(IngestedChunks(d, c)[k]) : k \in 1..c.count}

\* at most one row per chunk id
OneRowPerChunkId ==
    \A i, j \in 1..Len(documents) : i # j => documents[i].chunk_id # documents[j].chunk_id

\* the chunk just added had a row: no row was added, and the row of that
\* chunk id has the content, the embedding and the metadata of the chunk
ReplacedInPlace ==
    (lastAdd.added # <<>> /\ lastAdd.existed) =>
        /\ Len(documents) = lastAdd.rowsBefore
        /\ \E i \in 1..Len(documents) :
            /\ documents[i].chunk_id = lastAdd.added[1].id
            /\ documents[i].content = lastAdd.added[1].content
            /\ documents[i].embedding = lastAdd.added[1].embedding
            /\ documents[i].metadata = lastAdd.added[1].metadata

\* C16: storing chunks is an upsert keyed by chunkId: the store holds at most
\* one row per chunkId, storing a chunk again replaces the content, embedding
\* and metadata of its row instead of adding a row, and ingesting the same
\* content twice leaves the same rows as ingesting it once.
C16_UpsertByChunkId ==
    /\ storeKind = "vectorStore" => OneRowPerChunkId /\ ReplacedInPlace
    /\ storeOp \in {"storedAgain", "ingestedAgain"} => documents = docsBefore

\* C17: once a document was ingested again under the same id, the store
\* holds exactly the chunks of the latest ingestion for that documentId and
\* none left over from an earlier one.
C17_LatestIngestionOnly ==
    (storeKind = "vectorStore" /\ pendingChunks = <<>>) =>
        \A d \in StoredDocumentIds :
            latest[d] # NoContent => RowsOfDocument(d) = RowsOfContent(d, latest[d])


\* C36: IngestionService.ingest is all-or-nothing per document: when the
\* embedding or the insert of a chunk fails, no chunk of that document
\* remains stored, that is the table is as it was before the call.
C36_FailedIngestStoresNothing ==
    storeOp = "ingestFailed" => documents = docsBefore

\* ------------------------------------------------------------------------
\* Claims on the Sandbox answers and on parseFinalAnswer
\* ------------------------------------------------------------------------
\* what the component shows for one source (Sandbox.tsx, 223-236): the answer
\* card, the loading placeholder or nothing; it has no state for an error
SourceView(answer, isAnswering) ==
    IF answer # <<>> THEN "answer" ELSE IF isAnswering THEN "loading" ELSE "nothing"

\* C24: when exactly one of the document-grounded and the general-knowledge
\* generation fails and the other succeeds, the successful answer is
\* delivered and the failed source is marked with its own error.
C24_PartialFailureMarked ==
    \A q \in QueryIds :
        /\ (submitted = q /\ localPromise[q] = "rejected" /\ worldPromise[q] = "fulfilled"
                /\ sandboxPc[q] = "done" /\ shown.worldAnswer = q)
           => /\ SourceView(worldAnswer, isAnsweringWorld) = "answer"
              /\ SourceView(localAnswer, isAnsweringLocal) = "error"
        /\ (submitted = q /\ worldPromise[q] = "rejected" /\ localPromise[q] = "fulfilled"
                /\ sandboxResults > 0 /\ sandboxPc[q] = "done" /\ shown.localAnswer = q)
           => /\ localAnswer = parseFinalAnswer(generatedText)
              /\ SourceView(worldAnswer, isAnsweringWorld) = "error"

\* the 0-based positions of str at which the marker starts
MarkerPositions(str) ==
    {i \in 0..(Len(str) - Len(finalAnswerMarker)) :
        SubSeq(str, i + 1, i + Len(finalAnswerMarker)) = finalAnswerMarker}

\* result is str without its leading and trailing white space
IsTrimOf(result, str) ==
    /\ \E a, b \in 0..Len(str) :
          /\ a + b <= Len(str)
          /\ result = SubSeq(str, a + 1, Len(str) - b)
          /\ \A k \in 1..a : str[k] \in Whitespace
          /\ \A k \in (Len(str) - b + 1)..Len(str) : str[k] \in Whitespace
    /\ result # <<>> => (result[1] \notin Whitespace /\ result[Len(result)] \notin Whitespace)

\* C25: when the raw text contains the marker "Final Answer:" the parsed
\* answer is the trimmed text after the (first) marker and nothing else;
\* when it does not, the parsed answer is the whole raw text, trimmed.
C25_ParsedAnswer ==
    shown.localAnswer # 0
    => IF MarkerPositions(generatedText) # {}
       THEN \E i \in MarkerPositions(generatedText) :
               /\ \A j \in MarkerPositions(generatedText) : i <= j
               /\ IsTrimOf(localAnswer,
                           SubSeq(generatedText, i + Len(finalAnswerMarker) + 1,
                                  Len(generatedText)))
       ELSE IsTrimOf(localAnswer, generatedText)

\* reasoning, the marker, then the answer with white space around it
C25_Witness ==
    /\ shown.localAnswer # 0
    /\ \E i \in MarkerPositions(generatedText) : i > 0
    /\ localAnswer = <<"Y">>
    /\ Len(generatedText) >= Len(finalAnswerMarker) + 2

\* C33: after a search is submitted, whether both answer sources succeed or
\* either of them fails, isSearching, isAnsweringLocal and isAnsweringWorld
\* are all false again once every promise of the search has settled.
C33_BusyFlagsCleared ==
    (/\ submitted >= 1
     /\ \A q \in QueryIds :
           /\ sandboxPc[q] \in {"idle", "done"}
           /\ localPromise[q] # "pending"
           /\ worldPromise[q] # "pending")
    => (~isSearching /\ ~isAnsweringLocal /\ ~isAnsweringWorld)

\* C32: the results, the document answer and the general-knowledge answer
\* shown always belong to the search submitted last: what an earlier search
\* delivers late never replaces the state of a later one.
C32_ShownBelongsToLatest ==
    /\ shown.results \in {0, submitted}
    /\ shown.localAnswer \in {0, submitted}
    /\ shown.worldAnswer \in {0, submitted}

\* ------------------------------------------------------------------------
\* Claims on the shared database instance
\* ------------------------------------------------------------------------
\* C31: under concurrent first calls of getInstance the database is
\* constructed only once, and no caller receives the instance before its
\* initialization (waitReady, the vector extension, the documents table) has
\* completed.
C31_InitializedBeforeReceived ==
    /\ constructions <= 1
    /\ \A c \in DbCallers : getInstancePc[c] = "returned" => received[c] = "table"

\* ------------------------------------------------------------------------
\* Claims on the initialization of the EmbeddingService
\* ------------------------------------------------------------------------
\* C34: an initialize() call made while a model load is pending shares that
\* load, and an initialize() call made after a load failed attempts the load
\* again instead of returning the earlier failure.
C34_SharedLoadAndRetry ==
    /\ lastInitialize.promiseBefore = "pending" => ~lastInitialize.startedLoad
    /\ lastInitialize.promiseBefore = "rejected" => lastInitialize.startedLoad

\* ------------------------------------------------------------------------
\* Claims on lazy modules
\* ------------------------------------------------------------------------
\* C35: at most one load() runs at a time for a module, and every caller
\* ends with the loaded instance or with an error: a caller that waited on a
\* load that then failed never receives a null instance.
C35_OneLoadNoNullInstance ==
    /\ Cardinality({c \in LazyCallers : lazyPc[c] = "loading"}) <= 1
    /\ \A c \in LazyCallers : lazyResult[c] # "null"

\* ------------------------------------------------------------------------
\* Claims on the RAG pipeline and on the not-initialized guards
\* ------------------------------------------------------------------------
IsPrefix(s, t) == Len(s) <= Len(t) /\ s = SubSeq(t, 1, Len(s))

\* C22: a query enters its stages in the order Retrieve, Augment, Generate;
\* when retrieval fails the query is rejected with NoContextError, no prompt
\* has been built and the generation collaborator has not been called.
C22_StagesInOrder ==
    /\ IsPrefix(stages, <<"retrieve", "augment", "generate">>)
    /\ queryOutcome.failedAt = "retrieve"
       => /\ queryOutcome.status = "rejected"
          /\ queryOutcome.error = "NoContextError"
          /\ stages = <<"retrieve">>

\* C23: when generation fails after retrieval succeeded, the failure the
\* caller gets carries the metadata measured so far, the retrieval time
\* included.
C23_GenerationFailureHasMetadata ==
    queryOutcome.failedAt = "generate"
    => /\ queryOutcome.status = "rejected"
       /\ "retrievalTime" \in queryOutcome.metadata

\* C29: an operation issued while the initialize() of its service has not
\* completed, or (for the vector store) after a close() with no completed
\* initialize() since, fails with the not-initialized error and has called
\* no collaborator.
C29_NotInitializedFailsFirst ==
    (lastCall.op # "none" /\ ~lastCall.wasReady)
    => (lastCall.outcome = "notInitialized" /\ lastCall.called = {})

\* a vector-store operation after the store was initialized and closed
C29_Witness ==
    /\ lastCall.op = "vectorStore" /\ ~lastCall.wasReady
    /\ lastCall.outcome = "notInitialized"
    /\ searchInitialized /\ storeDb = "null" /\ storeClosePc = "idle"


\* ------------------------------------------------------------------------
\* Claims on getContextWindow
\* ------------------------------------------------------------------------
\* the rows of the document of the match
MatchDocumentRows ==
    {windowTable[k] : k \in {j \in 1..Len(windowTable) :
                                 windowTable[j].documentId = windowMatch.documentId}}

\* the 0-based position of a row among them, in chunkIndex order
PositionOf(row) == Cardinality({r \in MatchDocumentRows : r.chunkIndex < row.chunkIndex})

\* part holds exactly the rows at the positions first..last, in that order
HoldsPositions(part, first, last) ==
    /\ Len(part) = Max(0, last - first + 1)
    /\ \A k \in 1..Len(part) :
          /\ part[k] \in MatchDocumentRows
          /\ PositionOf(part[k]) = first + k - 1

\* C21: for a match at position i among the n chunks of its document in
\* chunkIndex order and a window w, before holds exactly the chunks at
\* max(0, i - w)..i - 1 and after those at i + 1..min(n - 1, i + w), in
\* chunkIndex order, and combinedText is made of the contents of before,
\* the match and after, in that order.
C21_ContextWindow ==
    (windowPc = "done" /\ windowMatch \in MatchDocumentRows)
    => /\ HoldsPositions(contextWindow.before,
                         Max(0, PositionOf(windowMatch) - windowSize),
                         PositionOf(windowMatch) - 1)
       /\ HoldsPositions(contextWindow.after,
                         PositionOf(windowMatch) + 1,
                         Min(Cardinality(MatchDocumentRows) - 1,
                             PositionOf(windowMatch) + windowSize))
       /\ contextWindow.match = windowMatch
       /\ SelectSeq(contextWindow.combinedText, LAMBDA c : c # "\n")
             = Concat(ContentsOf(contextWindow.before) \o <<windowMatch.content>>
                      \o ContentsOf(contextWindow.after))

\* a window of 2 around the second of three chunks: one chunk before (the
\* start is clamped), one after (the end is clipped)
C21_Witness ==
    /\ windowPc = "done"
    /\ windowSize = 2
    /\ Len(contextWindow.before) = 1
    /\ Len(contextWindow.after) = 1

====
